---- MODULE Spec2Model ----
(***************************************************************************)
(* Model of the mixed-mode EBM level 3 solver (MixA3Solver): the Newton    *)
(* damping routines, the positive-density projection and the BDF2          *)
(* positivity test of src/src/solver/mixA3/mixA3.cc.                       *)
(*                                                                         *)
(* PetscScalar values are modelled as exact rationals <<num, den>> with    *)
(* den > 0, kept in lowest terms, so that every comparison of the code is  *)
(* decided exactly.  Vectors are functions from array index to rational,   *)
(* addressed as the code does: local_offset + ebm_variable_offset(kind).   *)
(***************************************************************************)
EXTENDS Integers, Sequences, FiniteSets, TLC

----------------------------------------------------------------------------
(* Rational arithmetic (PetscScalar).                                      *)

Abs(a) == IF a < 0 THEN -a ELSE a

RECURSIVE GCD(_, _)
GCD(a, b) == IF b = 0 THEN a ELSE GCD(b, a % b)

\* the rational n/d (d # 0) in lowest terms with a positive denominator
Norm(n, d) ==
  LET g == GCD(Abs(n), Abs(d))
      s == IF d < 0 THEN -1 ELSE 1
  IN  << (s * n) \div g, (s * d) \div g >>

R(n) == << n, 1 >>

RAdd(a, b) ==
  LET g == GCD(a[2], b[2])
  IN  Norm(a[1] * (b[2] \div g) + b[1] * (a[2] \div g), (a[2] \div g) * b[2])

RNeg(a) == << -a[1], a[2] >>

RSub(a, b) == RAdd(a, RNeg(b))

\* cross-reduce before multiplying, to keep the intermediate products small
RMul(a, b) ==
  LET g1 == GCD(Abs(a[1]), b[2])
      g2 == GCD(Abs(b[1]), a[2])
  IN  Norm((a[1] \div g1) * (b[1] \div g2), (a[2] \div g2) * (b[2] \div g1))

RInv(a) == Norm(a[2], a[1])

RDiv(a, b) == RMul(a, RInv(b))

\* compare over the least common denominator
RLt(a, b) ==
  LET g == GCD(a[2], b[2]) IN a[1] * (b[2] \div g) < b[1] * (a[2] \div g)

RLe(a, b) == ~ RLt(b, a)

RAbs(a) == << Abs(a[1]), a[2] >>

RMin(a, b) == IF RLt(b, a) THEN b ELSE a

RSign(a) == IF a[1] > 0 THEN R(1) ELSE IF a[1] < 0 THEN R(-1) ELSE R(0)

----------------------------------------------------------------------------
(* State.                                                                  *)

VARIABLES
  enable_Tl, enable_Tn, enable_Tp, \* advanced-model flags of the regions
  layout,          \* order of the carrier unknowns in a semiconductor block
  x,               \* previous Newton iterate
  y,               \* search direction and length
  w,               \* candidate iterate
  w_trial,         \* the candidate as the line search handed it over
  x_proj,          \* accepted iterate after projection_positive_density_check
  changed_y, changed_w,   \* flags reported by the damping routine
  damping,         \* the damping routine that ran ("none" before)
  pc,              \* position in the Newton step / in the BDF2 test
  dt, dt_last,     \* SolverSpecify::dt, SolverSpecify::dt_last
  node_data,       \* FVM_NodeData of the semiconductor nodes
  bdf2_result,     \* value returned by BDF2_positive_defined
  bdf2_ret,        \* the value it returns on each rank
  Type,            \* SolverSpecify::Type
  solve_calls,     \* solve routines run by the current call of solve()
  solve_ret,       \* << value >> returned by solve(), << >> while none
  fatal,           \* genius_error() was raised
  X,               \* the solution vector x of the solver
  L,               \* the row scaling vector L of the solver
  pending,         \* vectors holding insertions that are not assembled yet
  node_store,      \* solution kept in the regions' node data
  ckt_sol,         \* working solution of the circuit (last rank)
  ckt_saved,       \* solution snapshot of the circuit (last rank)
  ckt_prev,        \* circuit solution when the last handler was entered
  save_ranks,      \* ranks on which save_solution has been called
  restore_ranks,   \* ranks on which restore_solution has been called
  call_log,        \* calls made by the last handler, in order
  last_op,         \* the last handler that ran
  dt_last_last,    \* SolverSpecify::dt_last_last
  TS_type,         \* SolverSpecify::TS_type
  BDF2_LowerOrder, \* SolverSpecify::BDF2_LowerOrder
  x_n, x_n1, x_n2, \* solutions of the last three accepted time steps
  xp,              \* predicted solution
  LTE,             \* local truncation error vector
  lte_c,           \* << cn, cn1, cn2 >> of the second-order predictor
  lte_raw,         \* the LTE vector before it is scaled
  lte_ret,         \* value returned by LTE_norm on each rank
  r_vec,           \* the residual vector r of the last residual assembly
  J,               \* the Jacobian matrix of the last Jacobian assembly
  flag_log,        \* add_value_flag after each call of the last assembly
  jacobian_matrix_first_assemble,  \* member flag of the solver
  ignore_zero_entries,   \* option MAT_IGNORE_ZERO_ENTRIES of J
  TimeDependent,   \* SolverSpecify::TimeDependent
  n_jacobian,      \* number of Jacobian assemblies so far
  n_reserve,       \* number of them that reserved the pattern of the BCs
  n_set_option,    \* number of MatSetOption calls so far
  norms,           \* the norms held by each rank after error_norm
  ckt_norm2,       \* _circuit->ckt_residual_norm2() on the last rank
  locators,        \* the PointLocatorTree objects: master and servant
  tree,            \* the Trees::TreeBase object the master allocates
  plt_ret,         \* the last call on a locator and its outcome
  NDEBUG,          \* the build: assert() compiled out
  im,              \* the locals of FE::inverse_map: secure, tolerance, cnt, inverse_map_error, p
  mesh,            \* the members of the MeshBase object
  mesh_ret         \* the last call on the mesh and what it returned

vars == << enable_Tl, enable_Tn, enable_Tp, layout, x, y, w, w_trial, x_proj,
           changed_y, changed_w, damping, pc, dt, dt_last, node_data,
           bdf2_result, bdf2_ret, Type, solve_calls, solve_ret, fatal, X, L, pending,
           node_store, ckt_sol, ckt_saved, ckt_prev, save_ranks,
           restore_ranks, call_log, last_op, dt_last_last, TS_type,
           BDF2_LowerOrder, x_n, x_n1, x_n2, xp, LTE, lte_c, lte_raw,
           lte_ret, r_vec, J,
           flag_log, jacobian_matrix_first_assemble, ignore_zero_entries,
           TimeDependent, n_jacobian, n_reserve, n_set_option,
           norms, ckt_norm2,
           locators, tree, plt_ret, NDEBUG,
           im,
           mesh, mesh_ret >>

dampVars == << enable_Tl, enable_Tn, enable_Tp, layout, x, y, w, w_trial,
               x_proj, changed_y, changed_w, damping >>

bdfVars == << dt, dt_last, node_data, bdf2_result, bdf2_ret >>

solveVars == << Type, solve_calls, solve_ret, fatal, X, L, pending,
                node_store, ckt_sol, ckt_saved, ckt_prev, save_ranks,
                restore_ranks, call_log, last_op >>

normVars == << norms, ckt_norm2 >>

IdleNorm ==
  /\ norms = << >>
  /\ ckt_norm2 = << >>

locVars == << locators, tree, plt_ret, NDEBUG >>

IdleLoc ==
  /\ locators = << >>
  /\ tree = << >>
  /\ plt_ret = [op |-> "none"]
  /\ NDEBUG = FALSE

imVars == << im >>

IdleIM ==
  /\ im = << >>

meshVars == << mesh, mesh_ret >>

IdleMesh ==
  /\ mesh = << >>
  /\ mesh_ret = << >>

\* the variables of the other subsystems, which the Newton step and the
\* BDF2 test leave alone
lteVars == << dt_last_last, TS_type, BDF2_LowerOrder, x_n, x_n1, x_n2, xp,
              LTE, lte_c, lte_raw, lte_ret >>

asmVars == << r_vec, J, flag_log, jacobian_matrix_first_assemble,
              ignore_zero_entries, TimeDependent, n_jacobian, n_reserve,
              n_set_option >>

otherVars == << solveVars, lteVars, asmVars,
    normVars,
    locVars,
    imVars,
    meshVars >>

\* the solver before solve() is called
IdleSolve ==
  /\ Type = "OP"
  /\ solve_calls = << >>
  /\ solve_ret = << >>
  /\ fatal = FALSE
  /\ X = << >>
  /\ L = << >>
  /\ pending = {}
  /\ node_store = << >>
  /\ ckt_sol = 0
  /\ ckt_saved = 0
  /\ ckt_prev = 0
  /\ save_ranks = {}
  /\ restore_ranks = {}
  /\ call_log = << >>
  /\ last_op = "none"

\* the time-step control before LTE_norm is called
IdleLTE ==
  /\ dt_last_last = 1
  /\ TS_type = "BDF1"
  /\ BDF2_LowerOrder = FALSE
  /\ x_n = << >> /\ x_n1 = << >> /\ x_n2 = << >>
  /\ xp = << >>
  /\ LTE = << >>
  /\ lte_c = << >>
  /\ lte_raw = << >>
  /\ lte_ret = << >>

\* the solver before the first assembly
IdleAsm ==
  /\ r_vec = << >>
  /\ J = << >>
  /\ flag_log = << >>
  /\ jacobian_matrix_first_assemble = FALSE
  /\ ignore_zero_entries = FALSE
  /\ TimeDependent = FALSE
  /\ n_jacobian = 0
  /\ n_reserve = 0
  /\ n_set_option = 0

----------------------------------------------------------------------------
(* Bounds of the model.                                                    *)

\* carrier densities of the previous iterate range over 1..MaxDens
MaxDens == 2

\* time steps range over 1..MaxDt
MaxDt == 2

----------------------------------------------------------------------------
(* Units and system parameters.                                            *)

\* PhysicalUnit::K, the unit of temperature
K == 1

\* this->get_system().T_external(), in K
T_external == 290

\* PhysicalUnit::kb / PhysicalUnit::e, in V/K
kb_over_e == << 1, 11600 >>

\* const PetscScalar onePerCMC = 1.0*std::pow(cm,-3)
onePerCMC == R(1)

\* T_external - 50*K
TlFloor == R(T_external - 50 * K)

\* 0.9*T_external
TcFloor == RMul(<< 9, 10 >>, R(T_external))

----------------------------------------------------------------------------
(* Regions, variable blocks and array offsets.                             *)

Kinds == { "POTENTIAL", "ELECTRON", "HOLE", "TEMPERATURE", "E_TEMP", "H_TEMP" }

SemiconductorRegion == "SemiconductorRegion"
InsulatorRegion == "InsulatorRegion"

\* _system.n_regions(): region 0 is a semiconductor, region 1 an insulator
n_regions == 2

region_type(r) == IF r = 0 THEN SemiconductorRegion ELSE InsulatorRegion

\* number of on-processor nodes of a region
n_nodes(r) == IF r = 0 THEN 2 ELSE 1

B2N(b) == IF b THEN 1 ELSE 0

\* Genius::n_processors()
n_processors == 2

Ranks == 0 .. n_processors - 1

\* Genius::is_last_processor() on processor `rank'
on_last_processor(rank) == rank = n_processors - 1

\* Parallel::sum(v): every rank gets the sum of the values of all ranks
RECURSIVE ParallelSum(_, _)
ParallelSum(v, rank) ==
  IF rank >= n_processors THEN 0 ELSE v[rank] + ParallelSum(v, rank + 1)

\* number of unknowns per node of a region
n_variables(r) ==
  IF region_type(r) = SemiconductorRegion
  THEN 3 + B2N(enable_Tl) + B2N(enable_Tn) + B2N(enable_Tp)
  ELSE 1 + B2N(enable_Tl)

\* region->ebm_variable_offset(kind); -1 stands for invalid_uint
ebm_variable_offset(r, kind) ==
  IF region_type(r) = SemiconductorRegion
  THEN CASE kind = "POTENTIAL"   -> 0
         [] kind = "ELECTRON"    -> IF layout = "np" THEN 1 ELSE 2
         [] kind = "HOLE"        -> IF layout = "np" THEN 2 ELSE 1
         [] kind = "TEMPERATURE" -> IF enable_Tl THEN 3 ELSE -1
         [] kind = "E_TEMP"      -> IF enable_Tn THEN 3 + B2N(enable_Tl) ELSE -1
         [] kind = "H_TEMP"      -> IF enable_Tp
                                    THEN 3 + B2N(enable_Tl) + B2N(enable_Tn)
                                    ELSE -1
  ELSE CASE kind = "POTENTIAL"   -> 0
         [] kind = "TEMPERATURE" -> IF enable_Tl THEN 1 ELSE -1
         [] OTHER                -> -1

\* first array index of a region's unknowns
region_base(r) == IF r = 0 THEN 0 ELSE n_nodes(0) * n_variables(0)

\* fvm_node->local_offset() of the k-th on-processor node of region r
local_offset(r, k) == region_base(r) + k * n_variables(r)

\* _circuit->n_ckt_nodes(): node 0 is a voltage node, node 1 a current node
n_ckt_nodes == 2

is_voltage_node(n) == n = 0

is_current_node(n) == n = 1

\* _circuit->array_offset_x(n): the circuit unknowns follow the region blocks
array_offset_x(n) == region_base(1) + n_nodes(1) * n_variables(1) + n

VecLen == array_offset_x(0) + n_ckt_nodes

Index == 0 .. (VecLen - 1)

\* index of unknown `kind' at node k of region r
Idx(r, k, kind) == local_offset(r, k) + ebm_variable_offset(r, kind)

\* the variable kinds a region carries
HasKind(r, kind) == ebm_variable_offset(r, kind) >= 0

SemiNodes == 0 .. (n_nodes(0) - 1)

----------------------------------------------------------------------------
(* The natural logarithm of the C library, for arguments >= 1.             *)
(* log(x) = k*ln2 + ln(m) with x = 2^k * m, 1 <= m < 2, and                *)
(* ln(m) = 2*(z + z^3/3 + ...), z = (m-1)/(m+1).  The leading term 2z is   *)
(* kept exactly, the cubic term and ln2 to four decimal places.            *)

RECURSIVE Reduce2(_, _)
Reduce2(m, k) ==
  IF RLt(m, R(2)) THEN << k, m >> ELSE Reduce2(RDiv(m, R(2)), k + 1)

ln2 == << 6931, 10000 >>

log(v) ==
  LET km == Reduce2(v, 0)
      m  == km[2]
      z  == RDiv(RSub(m, R(1)), RAdd(m, R(1)))
      zf == (z[1] * 10000) \div z[2]
      z2 == (zf * zf) \div 10000
      z3 == (z2 * zf) \div 10000
  IN  RAdd(RMul(R(km[1]), ln2),
           RAdd(RMul(R(2), z), Norm(2 * (z3 \div 3), 10000)))

----------------------------------------------------------------------------
(* Clips shared by the damping routines and the projection.                *)

\* mutant of CarrierEnergy: the clipped temperature is multiplied by the
\* reference density n0, not by the new density n1
Mut_CarrierEnergy(n0, n1, e0, e1) ==
  LET T0 == RDiv(e0, n0)
      T1 == RAdd(RMul(T0, RSub(R(1), RMin(RDiv(n1, n0), R(2)))), RDiv(e1, n0))
  IN  RMul(IF RLt(T1, TcFloor) THEN TcFloor ELSE T1, n0)

\* the carrier-energy unknown  T1*n1  after the temperature clip:
\*   T0 = e0/n0;  T1 = T0*(1-std::min(n1/n0,2.0)) + e1/n0;
\*   if (T1 < 0.9*T_external) T1 = 0.9*T_external;
CarrierEnergy(n0, n1, e0, e1) ==
  LET T0 == RDiv(e0, n0)
      T1 == RAdd(RMul(T0, RSub(R(1), RMin(RDiv(n1, n0), R(2)))), RDiv(e1, n0))
  IN  RMul(IF RLt(T1, TcFloor) THEN TcFloor ELSE T1, n1)

\* if (v[i] < floor) v[i] = floor
ClipBelow(v, i, floor) ==
  IF RLt(v[i], floor) THEN [v EXCEPT ![i] = floor] ELSE v

\* the lattice and carrier temperature clips at the node with offset lo of
\* semiconductor region r; ref is the vector the blending refers to
TemperatureClips(r, lo, ref, v) ==
  LET n_  == lo + ebm_variable_offset(r, "ELECTRON")
      p_  == lo + ebm_variable_offset(r, "HOLE")
      Tl_ == lo + ebm_variable_offset(r, "TEMPERATURE")
      Tn_ == lo + ebm_variable_offset(r, "E_TEMP")
      Tp_ == lo + ebm_variable_offset(r, "H_TEMP")
      v1  == IF enable_Tl THEN ClipBelow(v, Tl_, TlFloor) ELSE v
      v2  == IF enable_Tn
             THEN [v1 EXCEPT ![Tn_] =
                     CarrierEnergy(ref[n_], v1[n_], ref[Tn_], v1[Tn_])]
             ELSE v1
      v3  == IF enable_Tp
             THEN [v2 EXCEPT ![Tp_] =
                     CarrierEnergy(ref[p_], v2[p_], ref[Tp_], v2[Tp_])]
             ELSE v2
  IN  v3

----------------------------------------------------------------------------
(* potential_damping                                                       *)

\* body of the first node loop: the clips applied to ww at one node
PotentialDampingClipNode(r, lo, xx, ww) ==
  LET w1 == ClipBelow(ww, lo + ebm_variable_offset(r, "ELECTRON"), onePerCMC)
      w2 == ClipBelow(w1, lo + ebm_variable_offset(r, "HOLE"), onePerCMC)
  IN  TemperatureClips(r, lo, xx, w2)

RECURSIVE PotentialDampingClipNodes(_, _, _, _)
PotentialDampingClipNodes(r, k, xx, ww) ==
  IF k = n_nodes(r) THEN ww
  ELSE PotentialDampingClipNodes(r, k + 1, xx,
         PotentialDampingClipNode(r, local_offset(r, k), xx, ww))

RECURSIVE PotentialDampingClip(_, _, _)
PotentialDampingClip(n, xx, ww) ==
  IF n = n_regions THEN ww
  ELSE IF region_type(n) # SemiconductorRegion
       THEN PotentialDampingClip(n + 1, xx, ww)
       ELSE PotentialDampingClip(n + 1, xx,
              PotentialDampingClipNodes(n, 0, xx, ww))

\* dV_max: the largest |y_psi| over the semiconductor nodes, starting at 0
RECURSIVE MaxPsiNodes(_, _, _, _)
MaxPsiNodes(r, k, yy, m) ==
  IF k = n_nodes(r) THEN m
  ELSE LET a == RAbs(yy[local_offset(r, k) + ebm_variable_offset(r, "POTENTIAL")])
       IN  MaxPsiNodes(r, k + 1, yy, IF RLt(m, a) THEN a ELSE m)

RECURSIVE MaxPsi(_, _, _)
MaxPsi(n, yy, m) ==
  IF n = n_regions THEN m
  ELSE IF region_type(n) # SemiconductorRegion
       THEN MaxPsi(n + 1, yy, m)
       ELSE MaxPsi(n + 1, yy, MaxPsiNodes(n, 0, yy, m))

dV_max(yy) == MaxPsi(0, yy, R(0))

\* PetscScalar Vt = kb*T_external/e
Vt == RMul(kb_over_e, R(T_external))

\* mutant of DampFactor: the divisor is dV_max, not dV_max/Vt
Mut_DampFactor(dV) == RDiv(log(RAdd(R(1), RDiv(dV, Vt))), dV)

\* PetscScalar f = log(1+dV_max/Vt)/(dV_max/Vt)
DampFactor(dV) == RDiv(log(RAdd(R(1), RDiv(dV, Vt))), RDiv(dV, Vt))

\* the damped potential update of every node of every region
RECURSIVE DampPsiNodes(_, _, _, _, _, _)
DampPsiNodes(r, k, f, xx, yy, ww) ==
  IF k = n_nodes(r) THEN ww
  ELSE LET i == local_offset(r, k) + ebm_variable_offset(r, "POTENTIAL")
       IN  DampPsiNodes(r, k + 1, f, xx, yy,
             [ww EXCEPT ![i] = RSub(xx[i], RMul(f, yy[i]))])

\* mutant of DampPsi: only semiconductor regions get the damped potential
RECURSIVE Mut_DampPsi(_, _, _, _, _)
Mut_DampPsi(n, f, xx, yy, ww) ==
  IF n = n_regions THEN ww
  ELSE IF region_type(n) # SemiconductorRegion
       THEN Mut_DampPsi(n + 1, f, xx, yy, ww)
       ELSE Mut_DampPsi(n + 1, f, xx, yy, DampPsiNodes(n, 0, f, xx, yy, ww))

RECURSIVE DampPsi(_, _, _, _, _)
DampPsi(n, f, xx, yy, ww) ==
  IF n = n_regions THEN ww
  ELSE DampPsi(n + 1, f, xx, yy, DampPsiNodes(n, 0, f, xx, yy, ww))

\* if (dV_max > 1e-6) { ... }
PotentialDampingPsi(xx, yy, ww) ==
  LET dV == dV_max(yy)
  IN  IF RLt(<< 1, 1000000 >>, dV)
      THEN DampPsi(0, DampFactor(dV), xx, yy, ww)
      ELSE ww

\* mutant of CircuitClipNode: the damping factor is inverted
Mut_CircuitClipNode(i, limit, xx, yy, ww) ==
  LET d == RAbs(yy[i])
  IN  IF RLt(limit, d)
      THEN [ww EXCEPT ![i] = RSub(xx[i], RMul(RDiv(d, limit), yy[i]))]
      ELSE ww

\* the increment of a circuit node limited to `limit'
CircuitClipNode(i, limit, xx, yy, ww) ==
  LET d == RAbs(yy[i])
  IN  IF RLt(limit, d)
      THEN [ww EXCEPT ![i] = RSub(xx[i], RMul(RDiv(limit, d), yy[i]))]
      ELSE ww

RECURSIVE CircuitClip(_, _, _, _)
CircuitClip(n, xx, yy, ww) ==
  IF n = n_ckt_nodes THEN ww
  ELSE LET i  == array_offset_x(n)
           w1 == IF is_voltage_node(n)
                 THEN CircuitClipNode(i, R(5), xx, yy, ww) ELSE ww
           w2 == IF is_current_node(n)
                 THEN CircuitClipNode(i, R(1), xx, yy, w1) ELSE w1
       IN  CircuitClip(n + 1, xx, yy, w2)

\* Genius::is_last_processor(): the modelled rank is the last one, the rank
\* that holds the circuit unknowns
is_last_processor == TRUE

\* the candidate ww after potential_damping(x, y, w)
potential_damping(xx, yy, ww) ==
  LET w1 == PotentialDampingClip(0, xx, ww)
      w2 == PotentialDampingPsi(xx, yy, w1)
  IN  IF is_last_processor THEN CircuitClip(0, xx, yy, w2) ELSE w2

----------------------------------------------------------------------------
(* positive_density_damping                                                *)

\* body of the node loop
PositiveDensityDampingNode(r, lo, xx, yy, ww) ==
  LET psi_ == lo + ebm_variable_offset(r, "POTENTIAL")
      n_   == lo + ebm_variable_offset(r, "ELECTRON")
      p_   == lo + ebm_variable_offset(r, "HOLE")
      \* psi update should not large than 1V
      w1   == IF RLt(R(1), RAbs(yy[psi_]))
              THEN [ww EXCEPT ![psi_] = RSub(xx[psi_], RMul(RSign(yy[psi_]), R(1)))]
              ELSE ww
      \* if ( ww[local_offset+1] < onePerCMC ) ww[local_offset + node_n_offset] = onePerCMC
      w2   == IF RLt(w1[lo + 1], onePerCMC)
              THEN [w1 EXCEPT ![n_] = onePerCMC]
              ELSE w1
      w3   == ClipBelow(w2, p_, onePerCMC)
  IN  TemperatureClips(r, lo, xx, w3)

RECURSIVE PositiveDensityDampingNodes(_, _, _, _, _)
PositiveDensityDampingNodes(r, k, xx, yy, ww) ==
  IF k = n_nodes(r) THEN ww
  ELSE PositiveDensityDampingNodes(r, k + 1, xx, yy,
         PositiveDensityDampingNode(r, local_offset(r, k), xx, yy, ww))

RECURSIVE PositiveDensityDampingRegions(_, _, _, _)
PositiveDensityDampingRegions(n, xx, yy, ww) ==
  IF n = n_regions THEN ww
  ELSE IF region_type(n) # SemiconductorRegion
       THEN PositiveDensityDampingRegions(n + 1, xx, yy, ww)
       ELSE PositiveDensityDampingRegions(n + 1, xx, yy,
              PositiveDensityDampingNodes(n, 0, xx, yy, ww))

\* the candidate ww after positive_density_damping(x, y, w)
positive_density_damping(xx, yy, ww) ==
  PositiveDensityDampingRegions(0, xx, yy, ww)

----------------------------------------------------------------------------
(* projection_positive_density_check                                       *)

\* mutant of ProjectionNode: the hole density is not clipped
Mut_ProjectionNode(r, lo, oo, xx) ==
  TemperatureClips(r, lo, oo,
    ClipBelow(xx, lo + ebm_variable_offset(r, "ELECTRON"), onePerCMC))

\* body of the node loop
ProjectionNode(r, lo, oo, xx) ==
  LET x1 == ClipBelow(xx, lo + ebm_variable_offset(r, "ELECTRON"), onePerCMC)
      x2 == ClipBelow(x1, lo + ebm_variable_offset(r, "HOLE"), onePerCMC)
  IN  TemperatureClips(r, lo, oo, x2)

RECURSIVE ProjectionNodes(_, _, _, _)
ProjectionNodes(r, k, oo, xx) ==
  IF k = n_nodes(r) THEN xx
  ELSE ProjectionNodes(r, k + 1, oo,
         ProjectionNode(r, local_offset(r, k), oo, xx))

RECURSIVE ProjectionRegions(_, _, _)
ProjectionRegions(n, oo, xx) ==
  IF n = n_regions THEN xx
  ELSE IF region_type(n) # SemiconductorRegion
       THEN ProjectionRegions(n + 1, oo, xx)
       ELSE ProjectionRegions(n + 1, oo, ProjectionNodes(n, 0, oo, xx))

\* the vector xx after projection_positive_density_check(x, xo)
projection_positive_density_check(xx, oo) == ProjectionRegions(0, oo, xx)

----------------------------------------------------------------------------
(* The Newton step: the line search hands x, y and the trial candidate     *)
(* w = x - lambda*y to the damping routine selected by                     *)
(* SolverSpecify::Damping; the accepted candidate is then projected with   *)
(* the previous iterate as reference.                                      *)

\* values of the previous iterate, by kind of unknown
XSemi(kind, k, dens) ==
  CASE kind = "POTENTIAL"   -> << 1, 2 >>
    [] kind = "ELECTRON"    -> IF k = 0 THEN R(dens) ELSE R(2)
    [] kind = "HOLE"        -> R(3)
    [] kind = "TEMPERATURE" -> R(300)
    [] kind = "E_TEMP"      -> IF k = 0 THEN R(300 * dens) ELSE R(600)
    [] kind = "H_TEMP"      -> R(900)

\* Newton updates of node 0 of the semiconductor region, by kind of unknown
YSemi(kind) ==
  CASE kind = "POTENTIAL"   -> { R(0), << 1, 500000 >>, << 1, 2 >>, R(-2) }
    [] kind = "ELECTRON"    -> { R(0), R(5), R(-4) }
    [] kind = "HOLE"        -> { R(0), R(5) }
    [] kind = "TEMPERATURE" -> { R(0), R(100) }
    [] kind = "E_TEMP"      -> { R(0), R(400) }
    [] kind = "H_TEMP"      -> { R(0), R(700) }

\* the choices for a kind of unknown the region does not carry
YOf(kind) == IF HasKind(0, kind) THEN YSemi(kind) ELSE { R(0) }

\* kind of the unknown stored at slot s of a block of region r
KindAt(r, s) == CHOOSE kind \in Kinds : ebm_variable_offset(r, kind) = s

\* the previous iterate
XVec(dens) ==
  [i \in Index |->
     IF i < region_base(1)
     THEN XSemi(KindAt(0, i % n_variables(0)), i \div n_variables(0), dens)
     ELSE IF i < array_offset_x(0)
          THEN IF KindAt(1, (i - region_base(1)) % n_variables(1)) = "POTENTIAL"
               THEN R(0) ELSE R(300)
          ELSE IF is_voltage_node(i - array_offset_x(0)) THEN R(1) ELSE R(0)]

\* potential update of node 1: exactly 1e-6 when node 0 moves by no more
\* than a few microvolts, one volt downwards otherwise
YPsi1(ypsi0) ==
  IF RLe(RAbs(ypsi0), << 1, 100000 >>) THEN << 1, 1000000 >> ELSE R(-1)

\* the Newton update: c gives the update of node 0 by kind, cv and ci the
\* updates of the circuit nodes
YVec(c, cv, ci) ==
  [i \in Index |->
     IF i < region_base(1)
     THEN LET kind == KindAt(0, i % n_variables(0))
          IN  IF i \div n_variables(0) = 0 THEN c[kind]
              ELSE IF kind = "POTENTIAL" THEN YPsi1(c[kind]) ELSE R(0)
     ELSE IF i < array_offset_x(0)
          THEN IF KindAt(1, (i - region_base(1)) % n_variables(1)) = "POTENTIAL"
               THEN R(3) ELSE R(100)
          ELSE IF is_voltage_node(i - array_offset_x(0)) THEN cv ELSE ci]

\* w = x - lambda*y
TrialVec(xx, yy, lambda) == [i \in Index |-> RSub(xx[i], RMul(lambda, yy[i]))]

NoVec == << >>

Init ==
  /\ enable_Tl \in BOOLEAN
  /\ enable_Tn \in BOOLEAN
  /\ enable_Tp \in BOOLEAN
  /\ layout \in { "np", "pn" }
  /\ \E dens \in 1 .. MaxDens : x = XVec(dens)
  /\ \E ypsi \in YOf("POTENTIAL"), yn \in YOf("ELECTRON"), yp \in YOf("HOLE"),
        yTl \in YOf("TEMPERATURE"), yTn \in YOf("E_TEMP"), yTp \in YOf("H_TEMP"),
        cv \in { R(3), R(-10) }, ci \in { << 1, 2 >>, R(-3) } :
       y = YVec([kind \in Kinds |->
                   CASE kind = "POTENTIAL"   -> ypsi
                     [] kind = "ELECTRON"    -> yn
                     [] kind = "HOLE"        -> yp
                     [] kind = "TEMPERATURE" -> yTl
                     [] kind = "E_TEMP"      -> yTn
                     [] kind = "H_TEMP"      -> yTp], cv, ci)
  /\ \E lambda \in { R(1), << 1, 2 >> } : w = TrialVec(x, y, lambda)
  /\ w_trial = w
  /\ x_proj = NoVec
  /\ changed_y = FALSE
  /\ changed_w = FALSE
  /\ damping = "none"
  /\ pc = "trial"
  /\ dt = 1
  /\ dt_last = 1
  /\ node_data = << >>
  /\ bdf2_result = FALSE
  /\ bdf2_ret = << >>
  /\ IdleMesh
  /\ IdleIM
  /\ IdleLoc
  /\ IdleNorm
  /\ IdleSolve
  /\ IdleLTE
  /\ IdleAsm

PotentialDamping ==
  /\ pc = "trial"
  /\ w' = potential_damping(x, y, w)
  /\ changed_y' = FALSE
  /\ changed_w' = TRUE
  /\ damping' = "potential_damping"
  /\ pc' = "damped"
  /\ UNCHANGED << enable_Tl, enable_Tn, enable_Tp, layout, x, y, w_trial, x_proj >>
  /\ UNCHANGED << bdfVars, otherVars >>

\* mutant of BankRoseDamping: reports changed_w as the other routines do
Mut_BankRoseDamping ==
  /\ pc = "trial"
  /\ changed_y' = FALSE
  /\ changed_w' = TRUE
  /\ damping' = "bank_rose_damping"
  /\ pc' = "damped"
  /\ UNCHANGED << enable_Tl, enable_Tn, enable_Tp, layout, x, y, w, w_trial, x_proj >>
  /\ UNCHANGED << bdfVars, otherVars >>

BankRoseDamping ==
  /\ pc = "trial"
  /\ changed_y' = FALSE
  /\ changed_w' = FALSE
  /\ damping' = "bank_rose_damping"
  /\ pc' = "damped"
  /\ UNCHANGED << enable_Tl, enable_Tn, enable_Tp, layout, x, y, w, w_trial, x_proj >>
  /\ UNCHANGED << bdfVars, otherVars >>

\* mutant of PositiveDensityDamping: changed_w follows changed_flag, which
\* the routine sets only where it clips the lattice temperature
Mut_PositiveDensityDamping ==
  /\ pc = "trial"
  /\ w' = positive_density_damping(x, y, w)
  /\ changed_y' = FALSE
  /\ changed_w' = (enable_Tl /\ \E k \in SemiNodes :
                     RLt(w[Idx(0, k, "TEMPERATURE")], TlFloor))
  /\ damping' = "positive_density_damping"
  /\ pc' = "damped"
  /\ UNCHANGED << enable_Tl, enable_Tn, enable_Tp, layout, x, y, w_trial, x_proj >>
  /\ UNCHANGED << bdfVars, otherVars >>

PositiveDensityDamping ==
  /\ pc = "trial"
  /\ w' = positive_density_damping(x, y, w)
  /\ changed_y' = FALSE
  /\ changed_w' = TRUE
  /\ damping' = "positive_density_damping"
  /\ pc' = "damped"
  /\ UNCHANGED << enable_Tl, enable_Tn, enable_Tp, layout, x, y, w_trial, x_proj >>
  /\ UNCHANGED << bdfVars, otherVars >>

Projection ==
  /\ pc = "damped"
  /\ x_proj' = projection_positive_density_check(w, x)
  /\ pc' = "projected"
  /\ UNCHANGED << enable_Tl, enable_Tn, enable_Tp, layout, x, y, w, w_trial,
                  changed_y, changed_w, damping >>
  /\ UNCHANGED << bdfVars, otherVars >>

Next ==
  \/ PotentialDamping
  \/ BankRoseDamping
  \/ PositiveDensityDamping
  \/ Projection

Spec == Init /\ [][Next]_vars

----------------------------------------------------------------------------
(* BDF2_positive_defined                                                   *)

\* const double r = SolverSpecify::dt_last/(SolverSpecify::dt_last + SolverSpecify::dt)
bdf_r == Norm(dt_last, dt_last + dt)

\* const double a = 1.0/(r*(1-r))
bdf_a == RInv(RMul(bdf_r, RSub(R(1), bdf_r)))

\* const double b = (1-r)/r
bdf_b == RDiv(RSub(R(1), bdf_r), bdf_r)

\* if (a*new < b*last) failure_count++
Fails(new, last) == B2N(RLt(RMul(bdf_a, R(new)), RMul(bdf_b, R(last))))

\* the failures counted at one semiconductor node
NodeFailures(d) ==
    Fails(d.n, d.n_last)
  + Fails(d.p, d.p_last)
  + (IF enable_Tl THEN Fails(d.T, d.T_last) ELSE 0)
  + (IF enable_Tn THEN Fails(d.n * d.Tn, d.n_last * d.Tn_last) ELSE 0)
  + (IF enable_Tp THEN Fails(d.p * d.Tp, d.p_last * d.Tp_last) ELSE 0)

\* the node of the mesh that is node k of region r
node_id(r, k) == IF r = 0 THEN k ELSE n_nodes(0) + k

\* region->on_processor_nodes_begin() .. end() on processor `rank'
on_processor(rank, r, k) == node_id(r, k) % n_processors = rank

RECURSIVE FailureCountNodes(_, _, _, _)
FailureCountNodes(rank, r, k, count) ==
  IF k = n_nodes(r) THEN count
  ELSE FailureCountNodes(rank, r, k + 1,
         IF on_processor(rank, r, k)
         THEN count + NodeFailures(node_data[node_id(r, k)])
         ELSE count)

\* failure_count of processor `rank' before the reduction
RECURSIVE FailureCount(_, _, _)
FailureCount(rank, n, count) ==
  IF n = n_regions THEN count
  ELSE IF region_type(n) = SemiconductorRegion
       THEN FailureCount(rank, n + 1, FailureCountNodes(rank, n, 0, count))
       ELSE FailureCount(rank, n + 1, count)

Mut_BDF2_positive_defined(rank) == FailureCount(rank, 0, 0) # 0

\* Parallel::sum(failure_count); return failure_count != 0
BDF2_positive_defined(rank) ==
  ParallelSum([q \in Ranks |-> FailureCount(q, 0, 0)], 0) # 0

\* node data in which every quantity has dropped below the test
CollapsedData ==
  [ n |-> 1, n_last |-> 9, p |-> 1, p_last |-> 30, T |-> 300, T_last |-> 1500,
    Tn |-> 300, Tn_last |-> 1500, Tp |-> 300, Tp_last |-> 1500 ]

\* node data of a steady history
SteadyData ==
  [ n |-> 2, n_last |-> 2, p |-> 3, p_last |-> 3, T |-> 300, T_last |-> 300,
    Tn |-> 300, Tn_last |-> 300, Tp |-> 300, Tp_last |-> 300 ]

InitBDF ==
  /\ enable_Tl \in BOOLEAN
  /\ enable_Tn \in BOOLEAN
  /\ enable_Tp \in BOOLEAN
  /\ layout = "np"
  /\ x = NoVec /\ y = NoVec /\ w = NoVec /\ w_trial = NoVec /\ x_proj = NoVec
  /\ changed_y = FALSE
  /\ changed_w = FALSE
  /\ damping = "none"
  /\ pc = "bdf_start"
  /\ dt \in 1 .. MaxDt
  /\ dt_last \in 1 .. MaxDt
  /\ \E nn \in { 1, 2, 9 }, nl \in { 1, 2, 9 }, pl \in { 3, 30 },
        Tl \in { 300, 1500 }, Tnl \in { 300, 1500 }, Tpl \in { 300, 310 },
        ins \in { SteadyData, CollapsedData } :
       node_data =
         [k \in 0 .. node_id(n_regions - 1, n_nodes(n_regions - 1) - 1) |->
            IF k = 0 THEN SteadyData
            ELSE IF k \notin SemiNodes THEN ins
            ELSE [ n |-> nn, n_last |-> nl, p |-> 3, p_last |-> pl,
                   T |-> 300, T_last |-> Tl, Tn |-> 300, Tn_last |-> Tnl,
                   Tp |-> 300, Tp_last |-> Tpl ]]
  /\ bdf2_result = FALSE
  /\ bdf2_ret = << >>
  /\ IdleMesh
  /\ IdleIM
  /\ IdleLoc
  /\ IdleNorm
  /\ IdleSolve
  /\ IdleLTE
  /\ IdleAsm

BDF2Test ==
  /\ pc = "bdf_start"
  /\ bdf2_ret' = [rank \in Ranks |-> BDF2_positive_defined(rank)]
  /\ bdf2_result' = bdf2_ret'[0]
  /\ pc' = "bdf_done"
  /\ UNCHANGED << dt, dt_last, node_data >>
  /\ UNCHANGED << dampVars, otherVars >>

NextBDF == BDF2Test

SpecBDF == InitBDF /\ [][NextBDF]_vars

\* a*new < b*last with a = (dt_last + dt)^2/(dt_last*dt) and b = dt/dt_last
Below(new, last) == (dt_last + dt) * (dt_last + dt) * new < dt * dt * last

\* some enabled quantity of node data d violates the BDF2 test
Violated(d) ==
  \/ Below(d.n, d.n_last)
  \/ Below(d.p, d.p_last)
  \/ enable_Tl /\ Below(d.T, d.T_last)
  \/ enable_Tn /\ Below(d.n * d.Tn, d.n_last * d.Tn_last)
  \/ enable_Tp /\ Below(d.p * d.Tp, d.p_last * d.Tp_last)

\* C24: the value BDF2_positive_defined returns is the same on every rank
\* and is decided by the semiconductor nodes of all ranks alone: it is
\* "some failure" exactly when an enabled quantity of some semiconductor
\* node, whichever rank owns it, has a*new < b*last; the data of the
\* other regions and the quantities whose flag is off play no part.
C24_GlobalVerdict ==
  pc = "bdf_done" =>
    \A rank \in Ranks :
      bdf2_ret[rank] = (\E k \in SemiNodes : Violated(node_data[k]))

\* the only violation is at a node the last rank owns, and rank 0 reports it
C24_Witness ==
  /\ pc = "bdf_done"
  /\ FailureCount(0, 0, 0) = 0
  /\ \E k \in SemiNodes : ~ on_processor(0, 0, k) /\ Violated(node_data[k])
  /\ bdf2_ret[0] = TRUE
  /\ \A rank \in Ranks : bdf2_ret[rank] = bdf2_ret[0]


----------------------------------------------------------------------------
(* Properties.                                                             *)

\* array indices of the unknowns of kind `kind' at the semiconductor nodes
SemiIdx(kind) == { Idx(0, k, kind) : k \in SemiNodes }

\* array indices of the potential unknowns of all regions
PsiIdx ==
  UNION { { Idx(r, k, "POTENTIAL") : k \in 0 .. (n_nodes(r) - 1) } :
          r \in 0 .. (n_regions - 1) }

\* array indices of the circuit unknowns
CktIdx == { array_offset_x(n) : n \in 0 .. (n_ckt_nodes - 1) }

\* array indices of the unknowns of the non-semiconductor regions
NonSemiIdx == { i \in Index : region_base(1) <= i /\ i < array_offset_x(0) }

RMax(a, b) == IF RLt(a, b) THEN b ELSE a

Ran(name) == pc = "damped" /\ damping = name

\* C1: after projection_positive_density_check the electron and hole
\* densities of every semiconductor node are >= 1 cm^-3, and no component of
\* a non-semiconductor region is modified.
C1_ProjectionDensities ==
  pc = "projected" =>
    /\ \A i \in SemiIdx("ELECTRON") \cup SemiIdx("HOLE") :
         RLe(onePerCMC, x_proj[i])
    /\ \A i \in NonSemiIdx : x_proj[i] = w[i]

\* C1 witness: a projection of an iterate with both densities of node 0 below
\* 1 cm^-3 and an insulator temperature below the lattice floor.
C1_Witness ==
  /\ pc = "projected"
  /\ RLt(w[Idx(0, 0, "ELECTRON")], onePerCMC)
  /\ RLt(w[Idx(0, 0, "HOLE")], onePerCMC)
  /\ enable_Tl
  /\ RLt(w[Idx(1, 0, "TEMPERATURE")], TlFloor)

C3_PositiveDensityDampingDensities ==
  Ran("positive_density_damping") =>
    \A i \in SemiIdx("ELECTRON") \cup SemiIdx("HOLE") : RLe(onePerCMC, w[i])

\* C4 as stated: potential_damping leaves every carrier-density,
\* lattice-temperature and carrier-energy component of w at its trial value.
C4_OnlyPotentialAndCircuit ==
  Ran("potential_damping") =>
    \A i \in Index \ (PsiIdx \cup CktIdx) : w[i] = w_trial[i]

\* what potential_damping leaves in w, component by component
C4_Frame ==
  /\ \A i \in PsiIdx :
       w[i] = IF RLt(<< 1, 1000000 >>, dV_max(y))
              THEN RSub(x[i], RMul(DampFactor(dV_max(y)), y[i]))
              ELSE w_trial[i]
  /\ \A i \in SemiIdx("ELECTRON") \cup SemiIdx("HOLE") :
       w[i] = RMax(w_trial[i], onePerCMC)
  /\ enable_Tl =>
       \A i \in SemiIdx("TEMPERATURE") : w[i] = RMax(w_trial[i], TlFloor)
  /\ \A i \in NonSemiIdx \ PsiIdx : w[i] = w_trial[i]
  /\ \A i \in CktIdx : w[i] # w_trial[i] => RLt(R(1), RAbs(y[i]))

\* C4 amended: potential_damping leaves x and y unchanged; in w it rewrites
\* the potentials (x_psi - f*y_psi when dV_max > 1e-6), the circuit nodes it
\* clips and, at semiconductor nodes, the densities (raised to 1 cm^-3), the
\* enabled lattice temperature (raised to T_ext - 50 K) and the enabled
\* carrier energies; the other unknowns of non-semiconductor regions keep
\* their trial value.
C4_PotentialDampingFrame ==
  /\ [](Ran("potential_damping") => C4_Frame)
  /\ [][(pc = "trial" /\ damping' = "potential_damping") =>
          (x' = x /\ y' = y)]_vars

\* C4 witness: potential damping with dV_max > 1e-6 that raised a density.
C4_Witness ==
  /\ Ran("potential_damping")
  /\ RLt(<< 1, 1000000 >>, dV_max(y))
  /\ \E i \in SemiIdx("ELECTRON") \cup SemiIdx("HOLE") : w[i] # w_trial[i]

\* every quantity the BDF2 test checks equals its previous-step value
SteadyHistory ==
  \A k \in SemiNodes :
    LET d == node_data[k] IN
      /\ d.n = d.n_last /\ d.n > 0
      /\ d.p = d.p_last /\ d.p > 0
      /\ enable_Tl => (d.T = d.T_last /\ d.T > 0)
      /\ enable_Tn => (d.Tn = d.Tn_last /\ d.Tn > 0)
      /\ enable_Tp => (d.Tp = d.Tp_last /\ d.Tp > 0)

\* C5: with dt = dt_last and a steady, positive history at every
\* semiconductor node BDF2_positive_defined returns true (BDF2 usable).
C5_AcceptsSteadyHistory ==
  (pc = "bdf_done" /\ dt = dt_last /\ SteadyHistory) => bdf2_result = TRUE

\* C6: with dt = dt_last, a history in which some semiconductor node has
\* n < n_last/8 makes BDF2_positive_defined return false.
C6_RejectsCollapsedDensity ==
  (pc = "bdf_done" /\ dt = dt_last
     /\ \E k \in SemiNodes : 8 * node_data[k].n < node_data[k].n_last)
    => bdf2_result = FALSE

\* C7 as stated: changed_w is true exactly when the routine modified w, and
\* changed_y exactly when it modified y.
C7_FlagsExact ==
  pc = "damped" => /\ changed_w <=> (w # w_trial)
                   /\ changed_y = FALSE

\* C7 amended: no routine modifies y and each reports changed_y = false;
\* changed_w is true whenever w was modified: potential_damping and
\* positive_density_damping report changed_w = true on every call, also
\* when no component of w changed, bank_rose_damping reports false and
\* modifies nothing.
C7_FlagsSound ==
  [][pc = "trial" =>
       /\ y' = y
       /\ changed_y' = FALSE
       /\ (w' # w) => changed_w'
       /\ damping' \in { "potential_damping", "positive_density_damping" }
            => changed_w'
       /\ damping' = "bank_rose_damping" => (~ changed_w' /\ w' = w)]_vars

\* C7 witness: potential_damping reported changed_w although it left every
\* component of w at its trial value.
C7_Witness ==
  /\ Ran("potential_damping")
  /\ changed_w
  /\ w = w_trial

\* the limit of circuit node n: 5 V for a voltage node, 1 A for a current node
CktLimit(n) == IF is_voltage_node(n) THEN R(5) ELSE R(1)

\* C8: after potential_damping every circuit voltage node has |w - x| <= 5
\* and every current node |w - x| <= 1; a clipped increment x - w has the
\* limit as size and the sign of y, an increment within the limit leaves w
\* at its trial value.
C8_CircuitClip ==
  Ran("potential_damping") =>
    \A n \in 0 .. (n_ckt_nodes - 1) :
      LET i == array_offset_x(n) IN
        /\ RLe(RAbs(RSub(w[i], x[i])), CktLimit(n))
        /\ IF RLt(CktLimit(n), RAbs(y[i]))
           THEN RSub(x[i], w[i]) = RMul(CktLimit(n), RSign(y[i]))
           ELSE w[i] = w_trial[i]

\* C8 witness: the voltage node is clipped while the current node is not.
C8_Witness ==
  /\ Ran("potential_damping")
  /\ RLt(R(5), RAbs(y[array_offset_x(0)]))
  /\ RLe(RAbs(y[array_offset_x(1)]), R(1))
  /\ w[array_offset_x(0)] # w_trial[array_offset_x(0)]

\* C9: when dV_max > 1e-6 the factor f lies in (0, 1], is at least
\* 1/(1 + dV_max/Vt) (so it tends to 1 as dV_max tends to 0) and every
\* potential step satisfies |w_psi - x_psi| <= |y_psi|; when dV_max <= 1e-6
\* no potential component of w is rewritten.
C9_DampFactor ==
  Ran("potential_damping") =>
    LET dV == dV_max(y) IN
      IF RLt(<< 1, 1000000 >>, dV)
      THEN LET f == DampFactor(dV) IN
             /\ RLt(R(0), f)
             /\ RLe(f, R(1))
             /\ RLe(R(1), RMul(f, RAdd(R(1), RDiv(dV, Vt))))
             /\ \A i \in PsiIdx : RLe(RAbs(RSub(w[i], x[i])), RAbs(y[i]))
      ELSE \A i \in PsiIdx : w[i] = w_trial[i]

\* C9 witness: dV_max > 1e-6 and a potential step strictly shorter than the
\* Newton update.
C9_Witness ==
  /\ Ran("potential_damping")
  /\ RLt(<< 1, 1000000 >>, dV_max(y))
  /\ \E i \in PsiIdx : RLt(RAbs(RSub(w[i], x[i])), RAbs(y[i]))

\* C10: bank_rose_damping leaves x, y and w unchanged and reports
\* changed_y = false and changed_w = false.
C10_BankRosePassThrough ==
  [][(pc = "trial" /\ damping' = "bank_rose_damping") =>
       (x' = x /\ y' = y /\ w' = w /\ ~ changed_y' /\ ~ changed_w')]_vars

\* C10 witness: bank_rose_damping ran on a candidate with a density below
\* 1 cm^-3 and a potential update above 1 V.
C10_Witness ==
  /\ Ran("bank_rose_damping")
  /\ \E i \in SemiIdx("ELECTRON") : RLt(w[i], onePerCMC)
  /\ \E i \in SemiIdx("POTENTIAL") : RLt(R(1), RAbs(y[i]))

----------------------------------------------------------------------------
(* MixA3Solver::solve, post_solve_process, flush_system and                *)
(* diverged_recovery.                                                      *)

\* components of the solution vector range over 0..MaxVal
MaxVal == 1


\* rows of the global system: a node of a region and a node of the circuit
RegionRows == { "node" }

CktRows == { "ckt" }

SysRows == RegionRows \cup CktRows

Vals == 0 .. MaxVal

\* values of SolverSpecify::Type; the last two stand for the types the
\* switch of solve() has no case for
SolutionTypes == { "OP", "DCSWEEP", "TRANSIENT", "ACSWEEP", "TRACE" }

\* the switch of solve(): the routines it runs, the value it returns and
\* whether genius_error() was raised
Mut_solve(type) ==
  CASE type = "OP"        -> [ calls |-> << "solve_dcop", "solve_dcsweep" >>,
                               ret |-> << 0 >>, fatal |-> FALSE ]
    [] type = "DCSWEEP"   -> [ calls |-> << "solve_dcsweep" >>,
                               ret |-> << 0 >>, fatal |-> FALSE ]
    [] type = "TRANSIENT" -> [ calls |-> << "solve_transient" >>,
                               ret |-> << 0 >>, fatal |-> FALSE ]
    [] OTHER              -> [ calls |-> << >>, ret |-> << >>, fatal |-> TRUE ]

solve(type) ==
  CASE type = "OP"        -> [ calls |-> << "solve_dcop" >>,
                               ret |-> << 0 >>, fatal |-> FALSE ]
    [] type = "DCSWEEP"   -> [ calls |-> << "solve_dcsweep" >>,
                               ret |-> << 0 >>, fatal |-> FALSE ]
    [] type = "TRANSIENT" -> [ calls |-> << "solve_transient" >>,
                               ret |-> << 0 >>, fatal |-> FALSE ]
    [] OTHER              -> [ calls |-> << >>, ret |-> << >>, fatal |-> TRUE ]

\* the diagonal scale estimate Fill_Value writes into L beside a value v
ScaleEstimate(v) == << 1, v + 1 >>

\* region->EBM3_Fill_Value(x, L) of every region
EBM3_Fill_Value(s, store) ==
  [ s EXCEPT !.X = [row \in SysRows |->
                      IF row \in RegionRows THEN store[row] ELSE @[row]],
             !.L = [row \in SysRows |->
                      IF row \in RegionRows THEN ScaleEstimate(store[row])
                      ELSE @[row]],
             !.pending = @ \cup { "x", "L" },
             !.log = Append(@, "EBM3_Fill_Value") ]

\* if(Genius::is_last_processor()) _circuit->restore_solution()
restore_solution(s, saved) ==
  [ s EXCEPT !.ckt = saved,
             !.ranks = @ \cup { rank \in Ranks : on_last_processor(rank) },
             !.log = Append(@, "restore_solution") ]

\* spice_fill_value(x, L): the circuit writes its solution into x
spice_fill_value(s) ==
  [ s EXCEPT !.X = [row \in SysRows |->
                      IF row \in CktRows THEN s.ckt ELSE @[row]],
             !.L = [row \in SysRows |->
                      IF row \in CktRows THEN R(1) ELSE @[row]],
             !.pending = @ \cup { "x", "L" },
             !.log = Append(@, "spice_fill_value") ]

\* VecAssemblyBegin(v); VecAssemblyEnd(v)
VecAssembly(s, v) ==
  [ s EXCEPT !.pending = @ \ { v }, !.log = Append(@, "VecAssembly " \o v) ]

Mut_diverged_recovery(s, store, saved) ==
  VecAssembly(VecAssembly(
    restore_solution(spice_fill_value(EBM3_Fill_Value(s, store)), saved),
    "x"), "L")

diverged_recovery(s, store, saved) ==
  VecAssembly(VecAssembly(
    spice_fill_value(restore_solution(EBM3_Fill_Value(s, store), saved)),
    "x"), "L")

\* the part of a vector the regions' EBM3_Update_Solution stores
UpdateSolution(v) == [row \in RegionRows |-> v[row]]

\* the ranks on which post_solve_process calls _circuit->save_solution()
SaveRanks == Ranks

notSolveVars == << dampVars, bdfVars, lteVars, asmVars,
    normVars,
    locVars,
    imVars,
    meshVars >>

InitSolve ==
  /\ enable_Tl = FALSE /\ enable_Tn = FALSE /\ enable_Tp = FALSE
  /\ layout = "np"
  /\ x = NoVec /\ y = NoVec /\ w = NoVec /\ w_trial = NoVec /\ x_proj = NoVec
  /\ changed_y = FALSE /\ changed_w = FALSE
  /\ damping = "none"
  /\ dt = 1 /\ dt_last = 1
  /\ node_data = << >>
  /\ bdf2_result = FALSE
  /\ bdf2_ret = << >>
  /\ IdleMesh
  /\ IdleIM
  /\ IdleLoc
  /\ IdleNorm
  /\ pc = "solve_ready"
  /\ Type \in SolutionTypes
  /\ solve_calls = << >>
  /\ solve_ret = << >>
  /\ fatal = FALSE
  /\ node_store \in [RegionRows -> Vals]
  /\ ckt_sol \in Vals
  /\ ckt_saved = ckt_sol
  /\ ckt_prev = ckt_sol
  /\ X = [row \in SysRows |->
            IF row \in RegionRows THEN node_store[row] ELSE ckt_sol]
  /\ L = [row \in SysRows |->
            IF row \in RegionRows THEN ScaleEstimate(node_store[row])
            ELSE R(1)]
  /\ pending = {}
  /\ save_ranks = {}
  /\ restore_ranks = {}
  /\ call_log = << >>
  /\ last_op = "none"
  /\ IdleLTE
  /\ IdleAsm

\* solve() is entered and its switch picks the routine
SolveEnter ==
  /\ pc \in { "solve_ready", "returned" }
  /\ \E type \in SolutionTypes :
       /\ Type' = type
       /\ solve_calls' = solve(type).calls
       /\ fatal' = solve(type).fatal
       /\ pc' = IF solve(type).fatal THEN "aborted" ELSE "in_solve"
  /\ solve_ret' = << >>
  /\ last_op' = "solve"
  /\ UNCHANGED << X, L, pending, node_store, ckt_sol, ckt_saved, ckt_prev,
                  save_ranks, restore_ranks, call_log >>
  /\ UNCHANGED notSolveVars

\* the routine is over and solve() returns
SolveReturn ==
  /\ pc = "in_solve"
  /\ solve_ret' = solve(Type).ret
  /\ pc' = "returned"
  /\ UNCHANGED << Type, solve_calls, fatal, X, L, pending, node_store,
                  ckt_sol, ckt_saved, ckt_prev, save_ranks, restore_ranks,
                  call_log, last_op >>
  /\ UNCHANGED notSolveVars

\* a Newton update of the nonlinear solver: x is replaced and the circuit
\* loads its part of it
NewtonUpdate ==
  /\ pc = "in_solve"
  /\ X' \in [SysRows -> Vals]
  /\ X' # X
  /\ ckt_sol' = X'["ckt"]
  /\ last_op' = "newton"
  /\ call_log' = << >>
  /\ UNCHANGED << Type, solve_calls, solve_ret, fatal, L, pending, node_store,
                  ckt_saved, ckt_prev, save_ranks, restore_ranks, pc >>
  /\ UNCHANGED notSolveVars

PostSolveProcess ==
  /\ pc = "in_solve"
  /\ node_store' = UpdateSolution(X)
  /\ ckt_saved' = ckt_sol
  /\ ckt_prev' = ckt_sol
  /\ save_ranks' = save_ranks \cup SaveRanks
  /\ call_log' = << "EBM3_Update_Solution", "save_solution",
                    "MixASolverBase::post_solve_process" >>
  /\ last_op' = "post_solve_process"
  /\ UNCHANGED << Type, solve_calls, solve_ret, fatal, X, L, pending, ckt_sol,
                  restore_ranks, pc >>
  /\ UNCHANGED notSolveVars

FlushSystem ==
  /\ pc = "in_solve"
  /\ \E v \in [SysRows -> Vals] : node_store' = UpdateSolution(v)
  /\ ckt_prev' = ckt_sol
  /\ call_log' = << "EBM3_Update_Solution" >>
  /\ last_op' = "flush_system"
  /\ UNCHANGED << Type, solve_calls, solve_ret, fatal, X, L, pending, ckt_sol,
                  ckt_saved, save_ranks, restore_ranks, pc >>
  /\ UNCHANGED notSolveVars

DivergedRecovery ==
  /\ pc = "in_solve"
  /\ LET s == diverged_recovery([ X |-> X, L |-> L, pending |-> pending,
                                  ckt |-> ckt_sol, ranks |-> restore_ranks,
                                  log |-> << >> ], node_store, ckt_saved)
     IN  /\ X' = s.X
         /\ L' = s.L
         /\ pending' = s.pending
         /\ ckt_sol' = s.ckt
         /\ restore_ranks' = s.ranks
         /\ call_log' = s.log
  /\ ckt_prev' = ckt_sol
  /\ last_op' = "diverged_recovery"
  /\ UNCHANGED << Type, solve_calls, solve_ret, fatal, node_store, ckt_saved,
                  save_ranks, pc >>
  /\ UNCHANGED notSolveVars

NextSolve ==
  \/ SolveEnter
  \/ SolveReturn
  \/ NewtonUpdate
  \/ PostSolveProcess
  \/ FlushSystem
  \/ DivergedRecovery

SpecSolve == InitSolve /\ [][NextSolve]_vars

\* position of the first call `name' in a call log, 0 when it is not there
FirstCall(calls, name) ==
  IF \E i \in 1 .. Len(calls) : calls[i] = name
  THEN CHOOSE i \in 1 .. Len(calls) :
         calls[i] = name /\ \A j \in 1 .. i - 1 : calls[j] # name
  ELSE 0

\* C11: when diverged_recovery returns, the circuit is back at its snapshot
\* and that was done before the circuit wrote its values into X (so the
\* circuit row of X holds the snapshot); the region rows of X and L hold the
\* values filled from the regions' stored node data; X and L hold no
\* pending insertion.
C11_DivergedRecovery ==
  last_op = "diverged_recovery" =>
    /\ ckt_sol = ckt_saved
    /\ \A row \in CktRows : X[row] = ckt_saved
    /\ FirstCall(call_log, "restore_solution") > 0
    /\ FirstCall(call_log, "restore_solution")
         < FirstCall(call_log, "spice_fill_value")
    /\ \A row \in RegionRows :
         X[row] = node_store[row] /\ L[row] = ScaleEstimate(node_store[row])
    /\ pending = {}

\* a recovery that had a diverged circuit solution and a diverged X to undo
C11_Witness ==
  /\ last_op = "diverged_recovery"
  /\ ckt_prev # ckt_saved
  /\ X["ckt"] = ckt_saved
  /\ L["node"] # R(1)

\* C12 (as stated): save_solution and restore_solution are called on the
\* same ranks, the last rank only.
C12_SameRanks ==
  /\ \A rank \in save_ranks : on_last_processor(rank)
  /\ \A rank \in restore_ranks : on_last_processor(rank)

\* C13: a call of solve() runs exactly the one routine of its Type and
\* returns 0; for a Type without a case it raises the fatal error, runs no
\* routine and does not return.
C13_SolveDispatch ==
  /\ pc \in { "in_solve", "returned" } =>
       /\ ~fatal
       /\ \/ Type = "OP" /\ solve_calls = << "solve_dcop" >>
          \/ Type = "DCSWEEP" /\ solve_calls = << "solve_dcsweep" >>
          \/ Type = "TRANSIENT" /\ solve_calls = << "solve_transient" >>
  /\ pc = "returned" => solve_ret = << 0 >>
  /\ pc = "in_solve" => solve_ret = << >>
  /\ pc = "aborted" =>
       /\ fatal
       /\ Type \notin { "OP", "DCSWEEP", "TRANSIENT" }
       /\ solve_calls = << >>
       /\ solve_ret = << >>
  /\ fatal => pc = "aborted"

\* a transient call of solve() that has returned
C13_Witness ==
  /\ pc = "returned"
  /\ Type = "TRANSIENT"
  /\ solve_calls = << "solve_transient" >>
  /\ solve_ret = << 0 >>

----------------------------------------------------------------------------
(* MixA3Solver::LTE_norm: the predictor and the truncation error vector.   *)

\* the unknowns of the vectors of the time-step control: those of a node
\* of a semiconductor region (on rank 0), of an insulator region (on the
\* last rank) and of a vacuum region, and a node of the circuit
LteUnknowns ==
  { u \in
      { [ name |-> "psi", type |-> SemiconductorRegion, kind |-> "POTENTIAL",
          rank |-> 0 ],
        [ name |-> "n", type |-> SemiconductorRegion, kind |-> "ELECTRON",
          rank |-> 0 ],
        [ name |-> "p", type |-> SemiconductorRegion, kind |-> "HOLE",
          rank |-> 0 ],
        [ name |-> "Tl", type |-> SemiconductorRegion, kind |-> "TEMPERATURE",
          rank |-> 0 ],
        [ name |-> "Tn", type |-> SemiconductorRegion, kind |-> "E_TEMP",
          rank |-> 0 ],
        [ name |-> "Tp", type |-> SemiconductorRegion, kind |-> "H_TEMP",
          rank |-> 0 ],
        [ name |-> "ins_psi", type |-> InsulatorRegion, kind |-> "POTENTIAL",
          rank |-> n_processors - 1 ],
        [ name |-> "ins_Tl", type |-> InsulatorRegion, kind |-> "TEMPERATURE",
          rank |-> n_processors - 1 ],
        [ name |-> "vac_psi", type |-> "VacuumRegion", kind |-> "POTENTIAL",
          rank |-> 0 ],
        [ name |-> "ckt", type |-> "circuit", kind |-> "ckt_node",
          rank |-> n_processors - 1 ] } :
      /\ u.kind = "TEMPERATURE" => enable_Tl
      /\ u.kind = "E_TEMP" => enable_Tn
      /\ u.kind = "H_TEMP" => enable_Tp }

\* components of the vectors of the time-step control
LteIdx == { u.name : u \in LteUnknowns }

\* VecZeroEntries(v)
VecZeroEntries == [i \in LteIdx |-> R(0)]

\* VecAXPY(yv, a, xv): yv = yv + a*xv
VecAXPY(yv, a, xv) == [i \in LteIdx |-> RAdd(yv[i], RMul(a, xv[i]))]

\* the branch of BDF1 and of BDF2 with BDF2_LowerOrder
FirstOrder(type, lower) == type = "BDF1" \/ (type = "BDF2" /\ lower)

\* VecAXPY(xp, 1+hn/hn1, x_n); VecAXPY(xp, -hn/hn1, x_n1)
Mut_PredictFirstOrder(hn, hn1, xn, xn1) ==
  VecAXPY(VecAXPY(VecZeroEntries, RDiv(R(hn), R(hn1)), xn),
          RNeg(RDiv(R(hn), R(hn1))), xn1)

PredictFirstOrder(hn, hn1, xn, xn1) ==
  VecAXPY(VecAXPY(VecZeroEntries, RAdd(R(1), RDiv(R(hn), R(hn1))), xn),
          RNeg(RDiv(R(hn), R(hn1))), xn1)

\* PetscScalar cn = 1+hn*(hn+2*hn1+hn2)/(hn1*(hn1+hn2))
Mut_cn(hn, hn1, hn2) ==
  RAdd(R(1), RDiv(R(hn * (hn + hn1 + hn2)), R(hn1 * (hn1 + hn2))))

cn(hn, hn1, hn2) ==
  RAdd(R(1), RDiv(R(hn * (hn + 2 * hn1 + hn2)), R(hn1 * (hn1 + hn2))))

\* PetscScalar cn1 = -hn*(hn+hn1+hn2)/(hn1*hn2)
Mut_cn1(hn, hn1, hn2) == RDiv(R(-hn * (hn + hn1)), R(hn1 * hn2))

cn1(hn, hn1, hn2) == RDiv(R(-hn * (hn + hn1 + hn2)), R(hn1 * hn2))

\* PetscScalar cn2 = hn*(hn+hn1)/(hn2*(hn1+hn2))
cn2(hn, hn1, hn2) == RDiv(R(hn * (hn + hn1)), R(hn2 * (hn1 + hn2)))

\* VecAXPY(xp, cn, x_n); VecAXPY(xp, cn1, x_n1); VecAXPY(xp, cn2, x_n2)
PredictSecondOrder(c, xn, xn1, xn2) ==
  VecAXPY(VecAXPY(VecAXPY(VecZeroEntries, c[1], xn), c[2], xn1), c[3], xn2)

\* the factor of x - xp in the truncation error
Mut_LTEFactor(type, lower, hn, hn1, hn2) == RDiv(R(hn), R(hn + hn1))

LTEFactor(type, lower, hn, hn1, hn2) ==
  IF FirstOrder(type, lower) THEN RDiv(R(hn), R(hn + hn1))
  ELSE RDiv(R(hn), R(hn + hn1 + hn2))

\* VecAXPY(LTE, beta, x); VecAXPY(LTE, -beta, xp)
LTEVec(beta, xv, xpv) ==
  VecAXPY(VecAXPY(VecZeroEntries, beta, xv), RNeg(beta), xpv)

\* a history vector: `base' at every component, moved by d times a weight
\* that differs from component to component
HistVec(base, d) ==
  [i \in LteIdx |->
     R(base + d * (CASE i = "psi" -> 1 [] i = "n" -> 2 [] i = "p" -> 0
                     [] i = "ckt" -> -1 [] i = "Tl" -> 1 [] i = "Tn" -> 2
                     [] i = "Tp" -> 0 [] i = "ins_psi" -> -1
                     [] i = "ins_Tl" -> 1 [] i = "vac_psi" -> 2))]

\* SolverSpecify::TS_rtol and SolverSpecify::TS_atol
TS_rtol == << 1, 2 >>

TS_atol == << 1, 4 >>

\* the scaling of the regions and of the circuit: the potential of every
\* region but a vacuum is set to 0, every other unknown of those regions
\* and of the circuit is divided by eps_r*xx + eps_a
ScaleLTE(ll, xx) ==
  [i \in LteIdx |->
     LET u == CHOOSE v \in LteUnknowns : v.name = i IN
       IF u.type = "VacuumRegion" THEN ll[i]
       ELSE IF u.kind = "POTENTIAL" THEN R(0)
       ELSE RDiv(ll[i], RAdd(RMul(TS_rtol, xx[i]), TS_atol))]

\* N on rank `rank': (ebm_n_variables - 1)*n_on_processor_node of every
\* region but a vacuum, and n_ckt_nodes on the last processor
Mut_LocalN(rank) ==
  Cardinality({ u \in LteUnknowns : u.rank = rank /\ u.type # "circuit" })
    + (IF on_last_processor(rank)
       THEN Cardinality({ u \in LteUnknowns : u.type = "circuit" }) ELSE 0)

LocalN(rank) ==
  LET ebm_n_variables(t) == Cardinality({ u \in LteUnknowns : u.type = t })
      n_on_processor_node(t) ==
        IF \E u \in LteUnknowns : u.type = t /\ u.rank = rank THEN 1 ELSE 0
  IN  (ebm_n_variables(SemiconductorRegion) - 1)
          * n_on_processor_node(SemiconductorRegion)
        + (ebm_n_variables(InsulatorRegion) - 1)
          * n_on_processor_node(InsulatorRegion)
        + (IF on_last_processor(rank)
           THEN Cardinality({ u \in LteUnknowns : u.type = "circuit" })
           ELSE 0)

\* VecNorm(LTE, NORM_2, &r); Parallel::sum(N); r/sqrt(N) if N > 0, else
\* 1.0.  The value returned on `rank' is kept as the vector whose 2-norm
\* was taken and the N whose root divides it (N = 0 for the value 1.0).
LTEReturn(ll, rank) ==
  LET N == ParallelSum([q \in Ranks |-> LocalN(q)], 0)
  IN  IF N > 0 THEN [ norm_of |-> ll, N |-> N ]
      ELSE [ norm_of |-> << >>, N |-> 0 ]

InitLTE ==
  /\ enable_Tl \in BOOLEAN /\ enable_Tn \in BOOLEAN /\ enable_Tp \in BOOLEAN
  /\ layout = "np"
  /\ x = NoVec /\ y = NoVec /\ w = NoVec /\ w_trial = NoVec /\ x_proj = NoVec
  /\ changed_y = FALSE /\ changed_w = FALSE
  /\ damping = "none"
  /\ node_data = << >>
  /\ bdf2_result = FALSE
  /\ bdf2_ret = << >>
  /\ IdleMesh
  /\ IdleIM
  /\ IdleLoc
  /\ IdleNorm
  /\ Type = "TRANSIENT"
  /\ solve_calls = << >> /\ solve_ret = << >> /\ fatal = FALSE
  /\ L = << >> /\ pending = {} /\ node_store = << >>
  /\ ckt_sol = 0 /\ ckt_saved = 0 /\ ckt_prev = 0
  /\ save_ranks = {} /\ restore_ranks = {}
  /\ call_log = << >>
  /\ last_op = "none"
  /\ pc = "lte_start"
  /\ dt \in 1 .. MaxDt
  /\ dt_last \in 1 .. MaxDt
  /\ dt_last_last \in 1 .. MaxDt
  /\ TS_type \in { "BDF1", "BDF2" }
  /\ BDF2_LowerOrder \in BOOLEAN
  /\ \E base \in { 1, 5 }, d0 \in { 0, 1 }, d1 \in { 0, 1, -2 }, d2 \in { 0, 3 } :
       /\ X = HistVec(base, d0 + d1 + d2)
       /\ x_n = HistVec(base, d1 + d2)
       /\ x_n1 = HistVec(base, d2)
       /\ x_n2 = HistVec(base, 0)
  /\ xp = << >>
  /\ LTE = << >>
  /\ lte_c = << >>
  /\ lte_raw = << >>
  /\ lte_ret = << >>
  /\ IdleAsm

notLteVars == << dampVars, bdfVars, solveVars, asmVars,
    normVars,
    locVars,
    imVars,
    meshVars >>

LTENorm ==
  /\ pc = "lte_start"
  /\ lte_c' = IF FirstOrder(TS_type, BDF2_LowerOrder) THEN << >>
              ELSE << cn(dt, dt_last, dt_last_last),
                      cn1(dt, dt_last, dt_last_last),
                      cn2(dt, dt_last, dt_last_last) >>
  /\ xp' = IF FirstOrder(TS_type, BDF2_LowerOrder)
           THEN PredictFirstOrder(dt, dt_last, x_n, x_n1)
           ELSE PredictSecondOrder(lte_c', x_n, x_n1, x_n2)
  /\ lte_raw' = LTEVec(LTEFactor(TS_type, BDF2_LowerOrder, dt, dt_last,
                                 dt_last_last), X, xp')
  /\ LTE' = ScaleLTE(lte_raw', X)
  /\ lte_ret' = [rank \in Ranks |-> LTEReturn(LTE', rank)]
  /\ pc' = "lte_done"
  /\ UNCHANGED << dt_last_last, TS_type, BDF2_LowerOrder, x_n, x_n1, x_n2 >>
  /\ UNCHANGED notLteVars

NextLTE == LTENorm

SpecLTE == InitLTE /\ [][NextLTE]_vars

\* C14: with the first-order predictor and a steady history x_{n-1} = x_n,
\* the predicted vector is x_n itself, whatever the step sizes.
C14_SteadyPredictor ==
  (pc = "lte_done" /\ FirstOrder(TS_type, BDF2_LowerOrder) /\ x_n1 = x_n) =>
    xp = x_n

\* a first-order prediction from a steady history with unequal steps
C14_Witness ==
  /\ pc = "lte_done"
  /\ FirstOrder(TS_type, BDF2_LowerOrder)
  /\ x_n1 = x_n
  /\ dt # dt_last
  /\ xp = x_n
  /\ X # x_n

\* C15: the coefficients of the second-order predictor add up to 1, and a
\* constant history x_n = x_{n-1} = x_{n-2} is predicted unchanged.
C15_CoefficientSum ==
  (pc = "lte_done" /\ ~FirstOrder(TS_type, BDF2_LowerOrder)) =>
    /\ RAdd(RAdd(lte_c[1], lte_c[2]), lte_c[3]) = R(1)
    /\ (x_n1 = x_n /\ x_n2 = x_n) => xp = x_n

\* a second-order prediction with three different steps
C15_Witness ==
  /\ pc = "lte_done"
  /\ ~FirstOrder(TS_type, BDF2_LowerOrder)
  /\ dt # dt_last
  /\ dt_last # dt_last_last
  /\ RAdd(RAdd(lte_c[1], lte_c[2]), lte_c[3]) = R(1)

\* C16 (as stated): c_n*(h_n)^0 + c_{n-1}*(-h_{n-1})
\* + c_{n-2}*(-h_{n-1} - h_{n-2}) = h_n, where (h_n)^0 = 1.
C16_FirstMomentAsStated ==
  (pc = "lte_done" /\ ~FirstOrder(TS_type, BDF2_LowerOrder)) =>
    RAdd(RAdd(RMul(lte_c[1], R(1)), RMul(lte_c[2], R(-dt_last))),
         RMul(lte_c[3], R(-dt_last - dt_last_last))) = R(dt)

\* C16 (amended): the first moment over the times of the history relative
\* to t_n, which are 0, -h_{n-1} and -h_{n-1} - h_{n-2}, is h_n:
\* c_n*0 + c_{n-1}*(-h_{n-1}) + c_{n-2}*(-h_{n-1} - h_{n-2}) = h_n.
C16_FirstMoment ==
  (pc = "lte_done" /\ ~FirstOrder(TS_type, BDF2_LowerOrder)) =>
    RAdd(RAdd(RMul(lte_c[1], R(0)), RMul(lte_c[2], R(-dt_last))),
         RMul(lte_c[3], R(-dt_last - dt_last_last))) = R(dt)

\* a second-order prediction with h_{n-1} # h_{n-2} and h_n > 1
C16_Witness ==
  /\ pc = "lte_done"
  /\ ~FirstOrder(TS_type, BDF2_LowerOrder)
  /\ dt > 1
  /\ dt_last # dt_last_last
  /\ lte_c[1] # R(1)

\* the unknowns LTE_norm scales: all but the potentials, outside vacuum
Scaled == { u \in LteUnknowns : u.type # "VacuumRegion" /\ u.kind # "POTENTIAL" }

\* C21 (as stated): every scaled component is e_i / (eps_r*|x_i| + eps_a),
\* so its denominator is at least eps_a.
C21_ScaledByAbs ==
  pc = "lte_done" =>
    \A u \in Scaled :
      LTE[u.name] = RDiv(lte_raw[u.name],
                         RAdd(RMul(TS_rtol, RAbs(X[u.name])), TS_atol))

C23_ModeSelection ==
  pc = "lte_done" =>
    \A i \in LteIdx :
      IF TS_type = "BDF1" \/ (TS_type = "BDF2" /\ BDF2_LowerOrder)
      THEN /\ xp[i] = RSub(RMul(RAdd(R(1), << dt, dt_last >>), x_n[i]),
                           RMul(Norm(dt, dt_last), x_n1[i]))
           /\ lte_raw[i] = RMul(Norm(dt, dt + dt_last), RSub(X[i], xp[i]))
      ELSE /\ xp[i] = RAdd(RAdd(RMul(lte_c[1], x_n[i]),
                                RMul(lte_c[2], x_n1[i])),
                           RMul(lte_c[3], x_n2[i]))
           /\ lte_raw[i] = RMul(Norm(dt, dt + dt_last + dt_last_last),
                                RSub(X[i], xp[i]))

\* a second-order step whose truncation error is not zero
C23_Witness ==
  /\ pc = "lte_done"
  /\ TS_type = "BDF2" /\ ~BDF2_LowerOrder
  /\ dt_last_last > 1
  /\ lte_raw["n"] # R(0)
  /\ lte_raw["n"] = RMul(Norm(dt, dt + dt_last + dt_last_last),
                         RSub(X["n"], xp["n"]))

----------------------------------------------------------------------------
(* MixA3Solver::error_norm.  lx is held in X and lf in r_vec; the regions   *)
(* and their owners are those of LteUnknowns.  sqrt(v) is kept as the       *)
(* record [sqrt |-> v].                                                     *)

NormNames ==
  { "potential_norm", "electron_norm", "hole_norm", "temperature_norm",
    "elec_temperature_norm", "hole_temperature_norm", "poisson_norm",
    "elec_continuity_norm", "hole_continuity_norm", "heat_equation_norm",
    "elec_energy_equation_norm", "hole_energy_equation_norm" }

Sq(v) == RMul(v, v)

\* processor `rank' has an on-processor node of a region of this type
OwnsNode(rank, type) ==
  \E u \in LteUnknowns : u.type = type /\ u.rank = rank

\* the sums of squares processor `rank' collects from its own nodes
LocalNorms(rank, xx, ff) ==
  LET semi == OwnsNode(rank, SemiconductorRegion)
      ins  == OwnsNode(rank, InsulatorRegion)
  IN [ potential_norm |->
         RAdd(IF semi THEN Sq(xx["psi"]) ELSE R(0),
              IF ins THEN Sq(xx["ins_psi"]) ELSE R(0)),
       electron_norm |-> IF semi THEN Sq(xx["n"]) ELSE R(0),
       hole_norm |-> IF semi THEN Sq(xx["p"]) ELSE R(0),
       temperature_norm |->
         RAdd(IF semi /\ enable_Tl THEN Sq(xx["Tl"]) ELSE R(0),
              IF ins /\ enable_Tl THEN Sq(xx["ins_Tl"]) ELSE R(0)),
       elec_temperature_norm |->
         IF semi /\ enable_Tn THEN Sq(RDiv(xx["Tn"], xx["n"])) ELSE R(0),
       hole_temperature_norm |->
         IF semi /\ enable_Tp THEN Sq(RDiv(xx["Tp"], xx["p"])) ELSE R(0),
       poisson_norm |->
         RAdd(IF semi THEN Sq(ff["psi"]) ELSE R(0),
              IF ins THEN Sq(ff["ins_psi"]) ELSE R(0)),
       elec_continuity_norm |-> IF semi THEN Sq(ff["n"]) ELSE R(0),
       hole_continuity_norm |-> IF semi THEN Sq(ff["p"]) ELSE R(0),
       heat_equation_norm |->
         RAdd(IF semi /\ enable_Tl THEN Sq(ff["Tl"]) ELSE R(0),
              IF ins /\ enable_Tl THEN Sq(ff["ins_Tl"]) ELSE R(0)),
       elec_energy_equation_norm |->
         IF semi /\ enable_Tn THEN Sq(ff["Tn"]) ELSE R(0),
       hole_energy_equation_norm |->
         IF semi /\ enable_Tp THEN Sq(ff["Tp"]) ELSE R(0) ]

\* Parallel::sum(norm_buffer): entry by entry, over the ranks from `rank' on
RECURSIVE SumBuffer(_, _, _)
SumBuffer(buf, name, rank) ==
  IF rank >= n_processors THEN R(0)
  ELSE RAdd(buf[rank][name], SumBuffer(buf, name, rank + 1))

\* Parallel::broadcast(v, root): every rank gets the value of `root'
Broadcast(v, root) == [rank \in Ranks |-> v[root]]

\* the norms of every rank if the buffer is not summed over the ranks
Mut_error_norm(old, xx, ff, ckt) ==
  LET spice == Broadcast([rank \in Ranks |->
                            IF on_last_processor(rank)
                            THEN [norm2 |-> ckt, unit |-> "A"]
                            ELSE old[rank].spice_norm], n_processors - 1)
  IN [rank \in Ranks |->
       [name \in NormNames \cup { "electrode_norm", "spice_norm" } |->
          IF name = "spice_norm" THEN spice[rank]
          ELSE IF name = "electrode_norm" THEN R(0)
          ELSE [sqrt |-> LocalNorms(rank, xx, ff)[name]]]]

\* the norms of every rank after error_norm
error_norm(old, xx, ff, ckt) ==
  LET buf   == [rank \in Ranks |-> LocalNorms(rank, xx, ff)]
      spice == Broadcast([rank \in Ranks |->
                            IF on_last_processor(rank)
                            THEN [norm2 |-> ckt, unit |-> "A"]
                            ELSE old[rank].spice_norm], n_processors - 1)
  IN [rank \in Ranks |->
       [name \in NormNames \cup { "electrode_norm", "spice_norm" } |->
          IF name = "spice_norm" THEN spice[rank]
          ELSE IF name = "electrode_norm" THEN R(0)
          ELSE [sqrt |-> SumBuffer(buf, name, 0)]]]

InitNorm ==
  /\ enable_Tl \in BOOLEAN /\ enable_Tn \in BOOLEAN /\ enable_Tp \in BOOLEAN
  /\ layout = "np"
  /\ x = NoVec /\ y = NoVec /\ w = NoVec /\ w_trial = NoVec /\ x_proj = NoVec
  /\ changed_y = FALSE /\ changed_w = FALSE
  /\ damping = "none"
  /\ pc = "norm_start"
  /\ dt = 1 /\ dt_last = 1
  /\ node_data = << >>
  /\ bdf2_result = FALSE
  /\ bdf2_ret = << >>
  /\ IdleMesh
  /\ IdleIM
  /\ IdleLoc
  /\ Type = "TRANSIENT"
  /\ solve_calls = << >> /\ solve_ret = << >> /\ fatal = FALSE
  /\ L = << >> /\ pending = {} /\ node_store = << >>
  /\ ckt_sol = 0 /\ ckt_saved = 0 /\ ckt_prev = 0
  /\ save_ranks = {} /\ restore_ranks = {}
  /\ call_log = << >>
  /\ last_op = "none"
  /\ IdleLTE
  /\ \E base \in { 1, 5 }, d \in { 0, 1, -2 } : X = HistVec(base, d)
  /\ \E base \in { 0, 1 }, d \in { 0, 1, -MaxVal } : r_vec = HistVec(base, d)
  /\ J = << >>
  /\ flag_log = << >>
  /\ jacobian_matrix_first_assemble = FALSE
  /\ ignore_zero_entries = FALSE
  /\ TimeDependent = FALSE
  /\ n_jacobian = 0 /\ n_reserve = 0 /\ n_set_option = 0
  /\ ckt_norm2 \in { R(1), R(2) }
  /\ \E s0 \in { R(0), R(2), R(3) } :
       norms = [rank \in Ranks |->
                  [name \in NormNames \cup { "electrode_norm", "spice_norm" } |->
                     IF name = "spice_norm" THEN [norm2 |-> s0, unit |-> "A"]
                     ELSE R(0)]]

notNormVars == << dampVars, bdfVars, solveVars, lteVars, asmVars,
    locVars,
    imVars,
    meshVars >>

ErrorNorm ==
  /\ pc = "norm_start"
  /\ norms' = error_norm(norms, X, r_vec, ckt_norm2)
  /\ pc' = "norm_done"
  /\ UNCHANGED << notNormVars, ckt_norm2 >>

NextNorm == ErrorNorm

SpecNorm == InitNorm /\ [][NextNorm]_vars

\* the sum of the squares of v at the unknowns `names' that exist
RECURSIVE SumSq(_, _)
SumSq(v, names) ==
  IF names = {} THEN R(0)
  ELSE LET i == CHOOSE j \in names : TRUE
       IN RAdd(IF i \in LteIdx THEN Sq(v[i]) ELSE R(0),
               SumSq(v, names \ { i }))

\* C25: after error_norm every rank holds the same value of every solution
\* norm and residual norm: the square root is taken of the sum of the
\* squares over the nodes of all ranks, and the spice norm is the one the
\* last rank computed from the circuit.
C25_SameNorms ==
  pc = "norm_done" =>
    \A rank \in Ranks :
      /\ norms[rank] = norms[0]
      /\ norms[rank].spice_norm = [norm2 |-> ckt_norm2, unit |-> "A"]
      /\ norms[rank].potential_norm = [sqrt |-> SumSq(X, { "psi", "ins_psi" })]
      /\ norms[rank].temperature_norm = [sqrt |-> SumSq(X, { "Tl", "ins_Tl" })]
      /\ norms[rank].electron_norm = [sqrt |-> SumSq(X, { "n" })]
      /\ norms[rank].poisson_norm = [sqrt |-> SumSq(r_vec, { "psi", "ins_psi" })]
      /\ norms[rank].heat_equation_norm =
           [sqrt |-> SumSq(r_vec, { "Tl", "ins_Tl" })]
      /\ norms[rank].hole_continuity_norm = [sqrt |-> SumSq(r_vec, { "p" })]

\* both ranks own nodes with a residual of the Poisson equation, and the
\* first rank holds the spice norm of the last one
C25_Witness ==
  /\ pc = "norm_done"
  /\ n_processors > 1
  /\ r_vec["psi"] # R(0) /\ r_vec["ins_psi"] # R(0)
  /\ norms[0].poisson_norm =
       [sqrt |-> RAdd(Sq(r_vec["psi"]), Sq(r_vec["ins_psi"]))]
  /\ norms[0].spice_norm = [norm2 |-> R(2), unit |-> "A"]
  /\ norms[0] = norms[n_processors - 1]

----------------------------------------------------------------------------
(* MixA3Solver::build_petsc_sens_residual and build_petsc_sens_jacobian.   *)

\* at most MaxAssemble Jacobian assemblies are followed
MaxAssemble == 2

\* rows of the assembled system: an inner node and an electrode node of
\* region 0, and the circuit node the electrode is tied to
AsmRows == { "node", "bc", "ckt" }

\* _system.get_bcs()->n_bcs()
n_bcs == 2

\* bc->is_spice_electrode() of boundary condition b
is_spice_electrode(b) == b = 0

ZeroVec == [row \in AsmRows |-> R(0)]

ZeroMat == [row \in AsmRows |-> [col \in AsmRows |-> R(0)]]

\* an assembler that inserts with `mode' promotes a flag that is not set
Promote(flag, mode) == IF flag = "NOT_SET_VALUES" THEN mode ELSE flag

\* the call `name' has been made; the flag is recorded as it left it
Logged(s, name) ==
  [ s EXCEPT !.log = Append(@, name), !.flags = Append(@, s.flag) ]

\* VecZeroEntries(r) or MatZeroEntries(J), InsertMode add_value_flag =
\* NOT_SET_VALUES, and empty src_row, dst_row, clear_row
AsmStart(rv, jm, lv, first) ==
  [ r |-> rv, J |-> jm, L |-> lv, flag |-> "NOT_SET_VALUES",
    log |-> << >>, flags |-> << >>,
    src_row |-> << >>, dst_row |-> << >>, clear_row |-> << >>,
    first |-> first, reserved |-> FALSE, option_set |-> FALSE ]

\* region->EBM3_Function, EBM3_Time_Dependent_Function,
\* EBM3_Function_Hanging_Node (kind "Function") and EBM3_Jacobian,
\* EBM3_Time_Dependent_Jacobian, EBM3_Jacobian_Hanging_Node (kind
\* "Jacobian") of region n.  Region 0 holds the edge node - bc with the
\* flux (1 + x_node)*(x_node - x_bc) and has no hanging node; the other
\* regions have no node among the rows.
RegionCall(s, phase, kind, xv, n) ==
  LET xn == xv["node"]
      xb == xv["bc"]
      flux == R((1 + xn) * (xn - xb))
      dn == R(1 + 2 * xn - xb)
      db == R(-(1 + xn))
      s1 == CASE n # 0 \/ phase = "hanging_node" -> s
              [] phase = "region" /\ kind = "Function" ->
                   [ s EXCEPT !.r = [@ EXCEPT !["node"] = RAdd(@, flux),
                                              !["bc"] = RSub(@, flux)],
                              !.flag = Promote(@, "ADD_VALUES") ]
              [] phase = "region" /\ kind = "Jacobian" ->
                   [ s EXCEPT !.J = [@ EXCEPT
                                       !["node"]["node"] = RAdd(@, dn),
                                       !["node"]["bc"] = RAdd(@, db),
                                       !["bc"]["node"] = RSub(@, dn),
                                       !["bc"]["bc"] = RSub(@, db)],
                              !.flag = Promote(@, "ADD_VALUES") ]
              [] phase = "time_dependent" /\ kind = "Function" ->
                   [ s EXCEPT !.r = [@ EXCEPT !["node"] = RAdd(@, R(xn)),
                                              !["bc"] = RAdd(@, R(xb))],
                              !.flag = Promote(@, "ADD_VALUES") ]
              [] phase = "time_dependent" /\ kind = "Jacobian" ->
                   [ s EXCEPT !.J = [@ EXCEPT
                                       !["node"]["node"] = RAdd(@, R(1)),
                                       !["bc"]["bc"] = RAdd(@, R(1))],
                              !.flag = Promote(@, "ADD_VALUES") ]
  IN  Logged(s1, phase)

\* for(unsigned int n=0; n<_system.n_regions(); n++)
RECURSIVE RegionLoop(_, _, _, _, _)
RegionLoop(s, phase, kind, xv, n) ==
  IF n >= n_regions THEN s
  ELSE RegionLoop(RegionCall(s, phase, kind, xv, n), phase, kind, xv, n + 1)

\* build_spice_function, build_spice_jacobian: the circuit node with a
\* unit conductance to a 1 V source
Circuit(s, kind, xv) ==
  Logged(IF kind = "Function"
         THEN [ s EXCEPT !.r = [@ EXCEPT !["ckt"] = RAdd(@, R(xv["ckt"] - 1))],
                         !.flag = Promote(@, "ADD_VALUES") ]
         ELSE [ s EXCEPT !.J = [@ EXCEPT !["ckt"]["ckt"] = RAdd(@, R(1))],
                         !.flag = Promote(@, "ADD_VALUES") ],
         "circuit")

\* the calls made for boundary condition b: Jacobian_Reserve, Preprocess
\* and Function or Jacobian.  The spice electrode moves the row of its
\* node to the row of the circuit node and sets x_bc = x_ckt in its place.
BCCall(s, phase, kind, xv, b) ==
  LET s1 == CASE ~is_spice_electrode(b) -> s
              [] phase = "reserve" ->
                   [ s EXCEPT !.flag = Promote(@, "ADD_VALUES"),
                              !.reserved = TRUE ]
              [] phase = "preprocess" ->
                   [ s EXCEPT !.src_row = Append(@, "bc"),
                              !.dst_row = Append(@, "ckt"),
                              !.clear_row = Append(@, "bc") ]
              [] phase = "assemble_bc" /\ kind = "Function" ->
                   [ s EXCEPT !.r = [@ EXCEPT !["bc"] =
                                       RAdd(@, R(xv["bc"] - xv["ckt"]))],
                              !.flag = Promote(@, "ADD_VALUES") ]
              [] phase = "assemble_bc" /\ kind = "Jacobian" ->
                   [ s EXCEPT !.J = [@ EXCEPT
                                       !["bc"]["bc"] = RAdd(@, R(1)),
                                       !["bc"]["ckt"] = RAdd(@, R(-1))],
                              !.flag = Promote(@, "ADD_VALUES") ]
  IN  Logged(s1, phase)

\* for(unsigned int b=0; b<_system.get_bcs()->n_bcs(); b++)
RECURSIVE BCLoop(_, _, _, _, _)
BCLoop(s, phase, kind, xv, b) ==
  IF b >= n_bcs THEN s
  ELSE BCLoop(BCCall(s, phase, kind, xv, b), phase, kind, xv, b + 1)

\* VecAssemblyBegin/End(r), MatAssemblyBegin/End(J, MAT_FINAL_ASSEMBLY)
Assembly(s) == Logged(s, "assembly")

\* what the rows src_row[k..] add to row `row' of the column `col'
RECURSIVE RowSum(_, _, _, _, _)
RowSum(col, src, dst, row, k) ==
  IF k > Len(src) THEN R(0)
  ELSE RAdd(IF dst[k] = row THEN col[src[k]] ELSE R(0),
            RowSum(col, src, dst, row, k + 1))

InRows(rows, row) == \E k \in 1 .. Len(rows) : rows[k] = row

\* PetscUtils::VecAddClearRow(r, src_row, dst_row, clear_row)
VecAddClearRow(s) ==
  Logged([ s EXCEPT !.r =
             [row \in AsmRows |->
                IF InRows(s.clear_row, row) THEN R(0)
                ELSE RAdd(s.r[row],
                          RowSum(s.r, s.src_row, s.dst_row, row, 1))] ],
         "row_add_clear")

\* PetscUtils::MatAddRowToRow(J, src_row, dst_row)
MatAddRowToRow(s) ==
  Logged([ s EXCEPT !.J =
             [row \in AsmRows |-> [col \in AsmRows |->
                RAdd(s.J[row][col],
                     RowSum([rw \in AsmRows |-> s.J[rw][col]],
                            s.src_row, s.dst_row, row, 1))]] ],
         "row_add")

\* PetscUtils::MatZeroRows(J, clear_row.size(), ..., 0.0)
MatZeroRows(s) ==
  Logged([ s EXCEPT !.J =
             [row \in AsmRows |-> [col \in AsmRows |->
                IF InRows(s.clear_row, row) THEN R(0) ELSE s.J[row][col]]] ],
         "row_clear")

\* add_value_flag = NOT_SET_VALUES
Mut_ResetFlag(s) == Logged(s, "reset_flag")

ResetFlag(s) == Logged([ s EXCEPT !.flag = "NOT_SET_VALUES" ], "reset_flag")

\* VecPointwiseMult(r, r, L)
VecPointwiseMult(s) ==
  Logged([ s EXCEPT !.r = [row \in AsmRows |-> RMul(s.r[row], s.L[row])] ],
         "row_scaling")

\* MatDiagonalScale(J, L, PETSC_NULL)
MatDiagonalScale(s) ==
  Logged([ s EXCEPT !.J = [row \in AsmRows |-> [col \in AsmRows |->
                             RMul(s.L[row], s.J[row][col])]] ],
         "row_scaling")

\* if( !jacobian_matrix_first_assemble ) ... Jacobian_Reserve of every bc
Reserve(s, xv) ==
  IF ~s.first THEN BCLoop(s, "reserve", "Jacobian", xv, 0) ELSE s

\* if( !jacobian_matrix_first_assemble )
\*   MatSetOption(J, MAT_IGNORE_ZERO_ENTRIES, PETSC_TRUE)
SetOption(s) ==
  IF ~s.first THEN Logged([ s EXCEPT !.option_set = TRUE ], "set_option")
  ELSE s

\* if(!jacobian_matrix_first_assemble) jacobian_matrix_first_assemble = true
SetFirstAssemble(s) == IF ~s.first THEN [ s EXCEPT !.first = TRUE ] ELSE s

\* the contributions up to the circuit
Contributions(s, kind, xv, td) ==
  LET s1 == RegionLoop(s, "region", kind, xv, 0)
      s2 == IF td THEN RegionLoop(s1, "time_dependent", kind, xv, 0) ELSE s1
      s3 == RegionLoop(s2, "hanging_node", kind, xv, 0)
  IN  Circuit(s3, kind, xv)

Mut_build_petsc_sens_residual(xv, rv, jm, lv, td, first) ==
  LET s1 == Contributions(AsmStart(ZeroVec, jm, lv, first), "Function", xv, td)
      s2 == VecAddClearRow(Assembly(s1))
      s3 == BCLoop(s2, "preprocess", "Function", xv, 0)
      s4 == BCLoop(ResetFlag(s3), "assemble_bc", "Function", xv, 0)
  IN  VecPointwiseMult(Assembly(s4))

build_petsc_sens_residual(xv, rv, jm, lv, td, first) ==
  LET s1 == Contributions(AsmStart(ZeroVec, jm, lv, first), "Function", xv, td)
      s2 == BCLoop(Assembly(s1), "preprocess", "Function", xv, 0)
      s3 == ResetFlag(VecAddClearRow(s2))
      s4 == BCLoop(s3, "assemble_bc", "Function", xv, 0)
  IN  VecPointwiseMult(Assembly(s4))

Mut_build_petsc_sens_jacobian(xv, rv, jm, lv, td, first) ==
  LET s1 == Contributions(AsmStart(rv, ZeroMat, lv, first), "Jacobian", xv, td)
      s2 == SetOption(Assembly(Reserve(s1, xv)))
      s3 == BCLoop(s2, "preprocess", "Jacobian", xv, 0)
      s4 == ResetFlag(MatZeroRows(MatAddRowToRow(s3)))
      s5 == BCLoop(s4, "assemble_bc", "Jacobian", xv, 0)
  IN  MatDiagonalScale(Assembly(s5))

build_petsc_sens_jacobian(xv, rv, jm, lv, td, first) ==
  LET s1 == Contributions(AsmStart(rv, ZeroMat, lv, first), "Jacobian", xv, td)
      s2 == SetOption(Assembly(Reserve(s1, xv)))
      s3 == BCLoop(s2, "preprocess", "Jacobian", xv, 0)
      s4 == ResetFlag(MatZeroRows(MatAddRowToRow(s3)))
      s5 == BCLoop(s4, "assemble_bc", "Jacobian", xv, 0)
  IN  SetFirstAssemble(MatDiagonalScale(Assembly(s5)))

InitAsm ==
  /\ enable_Tl = FALSE /\ enable_Tn = FALSE /\ enable_Tp = FALSE
  /\ layout = "np"
  /\ x = NoVec /\ y = NoVec /\ w = NoVec /\ w_trial = NoVec /\ x_proj = NoVec
  /\ changed_y = FALSE /\ changed_w = FALSE
  /\ damping = "none"
  /\ dt = 1 /\ dt_last = 1
  /\ node_data = << >>
  /\ bdf2_result = FALSE
  /\ bdf2_ret = << >>
  /\ IdleMesh
  /\ IdleIM
  /\ IdleLoc
  /\ IdleNorm
  /\ IdleLTE
  /\ Type = "TRANSIENT"
  /\ solve_calls = << >> /\ solve_ret = << >> /\ fatal = FALSE
  /\ pending = {} /\ node_store = << >>
  /\ ckt_sol = 0 /\ ckt_saved = 0 /\ ckt_prev = 0
  /\ save_ranks = {} /\ restore_ranks = {}
  /\ call_log = << >>
  /\ last_op = "none"
  /\ pc = "assemble"
  /\ X = [row \in AsmRows |-> 0]
  /\ \E l1 \in { R(1), << 1, 2 >> }, l2 \in { R(1), << 1, 4 >> } :
       L = [row \in AsmRows |-> IF row = "node" THEN l1 ELSE l2]
  /\ r_vec = ZeroVec
  /\ J = ZeroMat
  /\ flag_log = << >>
  /\ jacobian_matrix_first_assemble = FALSE
  /\ ignore_zero_entries = FALSE
  /\ TimeDependent \in BOOLEAN
  /\ n_jacobian = 0
  /\ n_reserve = 0
  /\ n_set_option = 0

\* the iterates the nonlinear solver hands to the residual assembly
XAsm == { xv \in [AsmRows -> { 0, 1, 2 }] : xv["bc"] <= 1 /\ xv["ckt"] <= 1 }

notAsmVars == << dampVars, bdfVars, lteVars, Type, solve_calls, solve_ret,
                 fatal, pending, node_store, ckt_sol, ckt_saved, ckt_prev,
                 save_ranks, restore_ranks, pc,
    normVars,
    locVars,
    imVars,
    meshVars >>

BuildResidual ==
  /\ pc = "assemble"
  /\ \E xv \in XAsm :
       \E s \in { build_petsc_sens_residual(xv, r_vec, J, L, TimeDependent,
                                   jacobian_matrix_first_assemble) } :
           /\ X' = xv
           /\ r_vec' = s.r
           /\ J' = s.J
           /\ L' = s.L
           /\ jacobian_matrix_first_assemble' = s.first
           /\ call_log' = s.log
           /\ flag_log' = s.flags
  /\ last_op' = "build_petsc_sens_residual"
  /\ UNCHANGED << ignore_zero_entries, TimeDependent, n_jacobian, n_reserve,
                  n_set_option >>
  /\ UNCHANGED notAsmVars

BuildJacobian ==
  /\ pc = "assemble"
  /\ n_jacobian < MaxAssemble
  /\ last_op # "none"
  /\ \E s \in { build_petsc_sens_jacobian(X, r_vec, J, L, TimeDependent,
                                          jacobian_matrix_first_assemble) } :
           /\ X' = X
           /\ r_vec' = s.r
           /\ J' = s.J
           /\ L' = s.L
           /\ jacobian_matrix_first_assemble' = s.first
           /\ call_log' = s.log
           /\ flag_log' = s.flags
           /\ ignore_zero_entries' = (ignore_zero_entries \/ s.option_set)
           /\ n_reserve' = n_reserve + (IF s.reserved THEN 1 ELSE 0)
           /\ n_set_option' = n_set_option + (IF s.option_set THEN 1 ELSE 0)
  /\ n_jacobian' = n_jacobian + 1
  /\ last_op' = "build_petsc_sens_jacobian"
  /\ UNCHANGED TimeDependent
  /\ UNCHANGED notAsmVars

NextAsm ==
  \/ BuildResidual
  \/ BuildJacobian

SpecAsm == InitAsm /\ [][NextAsm]_vars

\* an assembly has run
Assembled ==
  last_op \in { "build_petsc_sens_residual", "build_petsc_sens_jacobian" }

\* positions of the calls `name' in the call log
Calls(name) == { i \in 1 .. Len(call_log) : call_log[i] = name }

\* the row operations: VecAddClearRow, MatAddRowToRow and MatZeroRows
RowOps == Calls("row_add_clear") \cup Calls("row_add") \cup Calls("row_clear")

\* every call of the set `first' is made before every call of `second'
Before(first, second) == \A i \in first, j \in second : i < j

\* C17: in both assemblies the contributions come in the order regions,
\* time-dependent terms (only when TimeDependent), hanging nodes, circuit,
\* preprocess of every BC, row add and row clear, assemble of every BC,
\* row scaling by L; the row operations come after all preprocess calls and
\* before any BC assemble call; row scaling happens once, as the last call.
C17_AssemblyOrder ==
  Assembled =>
    /\ Cardinality(Calls("region")) = n_regions
    /\ Cardinality(Calls("time_dependent"))
         = (IF TimeDependent THEN n_regions ELSE 0)
    /\ Cardinality(Calls("hanging_node")) = n_regions
    /\ Cardinality(Calls("circuit")) = 1
    /\ Cardinality(Calls("preprocess")) = n_bcs
    /\ RowOps # {}
    /\ Cardinality(Calls("assemble_bc")) = n_bcs
    /\ Calls("row_scaling") = { Len(call_log) }
    /\ Before(Calls("region"), Calls("time_dependent"))
    /\ Before(Calls("region"), Calls("hanging_node"))
    /\ Before(Calls("time_dependent"), Calls("hanging_node"))
    /\ Before(Calls("hanging_node"), Calls("circuit"))
    /\ Before(Calls("circuit"), Calls("preprocess"))
    /\ Before(Calls("preprocess"), RowOps)
    /\ Before(RowOps, Calls("assemble_bc"))
    /\ Before(Calls("assemble_bc"), Calls("row_scaling"))

\* a transient Jacobian assembly and a transient residual assembly are
\* told apart by their row operations
C17_Witness ==
  /\ last_op = "build_petsc_sens_residual"
  /\ TimeDependent
  /\ Calls("time_dependent") # {}
  /\ Calls("row_add_clear") # {}
  /\ n_jacobian > 0
  /\ r_vec # ZeroVec

\* C18 (as stated): in the assembly that reserves the pattern of the BCs,
\* the reservation comes first, before any other contribution to J.
C18_ReservedFirst ==
  (last_op = "build_petsc_sens_jacobian" /\ Calls("reserve") # {}) =>
    \A i \in 1 .. Len(call_log) :
      call_log[i] # "reserve" => \A j \in Calls("reserve") : j < i

\* C18 (amended): the pattern of the BCs is reserved in the first Jacobian
\* assembly only, there after the contributions of the regions and of the
\* circuit and before the first MatAssembly; the ignore-zero-entries option
\* is set once, in the first assembly right after that MatAssembly, and
\* stays set; no later assembly reserves or sets the option again.
C18_ReservedOnce ==
  /\ [](/\ n_reserve = (IF n_jacobian > 0 THEN 1 ELSE 0)
        /\ n_set_option = (IF n_jacobian > 0 THEN 1 ELSE 0)
        /\ ignore_zero_entries = (n_jacobian > 0)
        /\ jacobian_matrix_first_assemble = (n_jacobian > 0)
        /\ last_op = "build_petsc_sens_jacobian" =>
             IF n_jacobian = 1
             THEN /\ Cardinality(Calls("reserve")) = n_bcs
                  /\ Before(Calls("circuit"), Calls("reserve"))
                  /\ Before(Calls("region"), Calls("reserve"))
                  /\ Before(Calls("reserve"), Calls("assembly"))
                  /\ \E i \in Calls("set_option") :
                       /\ Calls("set_option") = { i }
                       /\ call_log[i - 1] = "assembly"
                       /\ Before(Calls("reserve"), { i })
                       /\ Before({ i }, Calls("preprocess"))
             ELSE Calls("reserve") = {} /\ Calls("set_option") = {})
  /\ [][ignore_zero_entries => ignore_zero_entries']_vars

\* a second Jacobian assembly: nothing reserved, the option still in force
C18_Witness ==
  /\ last_op = "build_petsc_sens_jacobian"
  /\ n_jacobian = 2
  /\ Calls("reserve") = {}
  /\ ignore_zero_entries
  /\ n_reserve = 1

\* C19 (as stated): within one assembly, once the flag has left NOT_SET
\* nothing sets it back to NOT_SET.
C19_NeverDemoted ==
  Assembled =>
    \A i \in 1 .. Len(flag_log), j \in 1 .. Len(flag_log) :
      (i < j /\ flag_log[i] # "NOT_SET_VALUES") =>
        flag_log[j] # "NOT_SET_VALUES"

\* C19 (amended): within one assembly no assembler sets a promoted flag
\* back to NOT_SET; the driver does so exactly once, by its assignment
\* add_value_flag = NOT_SET_VALUES right after the row add and row clear
\* and before the first BC assemble call.
C19_DemotedOnlyByDriver ==
  Assembled =>
    /\ \A i \in 2 .. Len(flag_log) :
         (flag_log[i - 1] # "NOT_SET_VALUES"
            /\ flag_log[i] = "NOT_SET_VALUES") => call_log[i] = "reset_flag"
    /\ \E i \in Calls("reset_flag") :
         /\ Calls("reset_flag") = { i }
         /\ flag_log[i] = "NOT_SET_VALUES"
         /\ i - 1 \in RowOps
         /\ Before(RowOps, { i })
         /\ Before({ i }, Calls("assemble_bc"))

\* an assembly in which the driver reset a promoted flag and a BC
\* promoted it again
C19_Witness ==
  /\ Assembled
  /\ \E i \in Calls("reset_flag") :
       /\ flag_log[i - 1] = "ADD_VALUES"
       /\ flag_log[i] = "NOT_SET_VALUES"
  /\ flag_log[Len(flag_log)] = "ADD_VALUES"

\* C20 (as stated): after a Jacobian assembly every component of L is the
\* reciprocal of the diagonal entry of the Jacobian just assembled.
C20_LRefreshed ==
  last_op = "build_petsc_sens_jacobian" =>
    \A row \in AsmRows : RMul(L[row], J[row][row]) = R(1)

----------------------------------------------------------------------------
(* PointLocatorTree (utils/point_locator_tree.cc).  A master locator owns  *)
(* the tree, a servant shares the tree of its master.                      *)

\* the MixA3 solver is not running
IdleMixA3 ==
  /\ enable_Tl = FALSE /\ enable_Tn = FALSE /\ enable_Tp = FALSE
  /\ layout = "np"
  /\ x = NoVec /\ y = NoVec /\ w = NoVec /\ w_trial = NoVec /\ x_proj = NoVec
  /\ changed_y = FALSE /\ changed_w = FALSE
  /\ damping = "none"
  /\ dt = 1 /\ dt_last = 1 /\ node_data = << >>
  /\ bdf2_result = FALSE /\ bdf2_ret = << >>
  /\ IdleSolve /\ IdleLTE /\ IdleAsm /\ IdleNorm

\* number of active elements of the mesh
n_elem == 2

NULL == 0

\* the master pointer of a master
NoMaster == "NULL"

LocIds == { "master", "servant" }

\* the active elements, in the order of active_elements_begin() .. end()
Elems == 1 .. n_elem

\* element e is the segment [e - 1, e]; the points 0 .. n_elem are in the
\* mesh, the point n_elem + 1 is outside
Points == 0 .. n_elem + 1

contains_point(e, p) == e - 1 <= p /\ p <= e

\* _tree->find_element(p): an element that contains p, or NULL (the
\* bounding boxes of the tree may miss an element)
find_element(p) == { NULL } \cup { e \in Elems : contains_point(e, p) }

\* the members after the initialiser list of the constructor
Constructed(m) ==
  [ state |-> "alive", _master |-> m, _tree |-> NULL, _element |-> NULL,
    _out_of_mesh_mode |-> FALSE, _initialized |-> FALSE ]

NoLocator ==
  [ state |-> "none", _master |-> NoMaster, _tree |-> NULL,
    _element |-> NULL, _out_of_mesh_mode |-> FALSE, _initialized |-> FALSE ]

\* the outcomes after which the program does not go on
Stops == { "assert", "genius_error", "undefined", "double_delete" }

\* PointLocatorTree::init on locator l; `ndebug' is the build
PointLocatorTree_init(locs, tr, l, ndebug) ==
  LET me == locs[l] IN
  IF me._tree # NULL /\ ~ ndebug
  THEN [ locs |-> locs, tree |-> tr, outcome |-> "assert" ]
  ELSE IF me._initialized
  THEN [ locs |-> [locs EXCEPT ![l]._initialized = TRUE], tree |-> tr,
         outcome |-> "ignored" ]
  ELSE IF me._master = NoMaster
  THEN [ locs |-> [locs EXCEPT ![l]._tree = 1, ![l]._element = NULL,
                               ![l]._initialized = TRUE],
         tree |-> [ state |-> "live", n_delete |-> 0, deleted_by |-> {} ],
         outcome |-> "ok" ]
  ELSE IF locs[me._master]._initialized
  THEN [ locs |-> [locs EXCEPT ![l]._tree = locs[me._master]._tree,
                               ![l]._element = NULL,
                               ![l]._initialized = TRUE],
         tree |-> tr, outcome |-> "ok" ]
  ELSE [ locs |-> locs, tree |-> tr, outcome |-> "genius_error" ]

\* delete this->_tree
Delete(tr, l) ==
  [ state |-> "deleted", n_delete |-> tr.n_delete + 1,
    deleted_by |-> tr.deleted_by \cup { l } ]

\* PointLocatorTree::clear on locator l
PointLocatorTree_clear(locs, tr, l) ==
  LET me == locs[l] IN
  IF me._tree # NULL
  THEN IF me._master = NoMaster
       THEN [ locs |-> locs, tree |-> Delete(tr, l),
              outcome |-> IF tr.state = "live" THEN "ok"
                          ELSE "double_delete" ]
       ELSE [ locs |-> [locs EXCEPT ![l]._tree = NULL], tree |-> tr,
              outcome |-> "ok" ]
  ELSE [ locs |-> locs, tree |-> tr, outcome |-> "ok" ]

\* the linear search over the active elements
LinearSearch(p) ==
  IF \E e \in Elems : contains_point(e, p)
  THEN CHOOSE e \in Elems :
         /\ contains_point(e, p)
         /\ \A e2 \in Elems : contains_point(e2, p) => e <= e2
  ELSE NULL

\* PointLocatorTree::operator() on a locator with members `me', when the
\* tree answers `found'
Mut_Locate(me, p, found) ==
  IF me._element = NULL \/ ~ contains_point(me._element, p)
  THEN [ value |-> found, outcome |-> "ok" ]
  ELSE [ value |-> me._element, outcome |-> "ok" ]

Locate(me, p, found) ==
  IF me._element = NULL \/ ~ contains_point(me._element, p)
  THEN IF found = NULL
       THEN IF ~ me._out_of_mesh_mode
            THEN IF LinearSearch(p) # NULL
                 THEN [ value |-> LinearSearch(p), outcome |-> "ok" ]
                 ELSE [ value |-> NULL, outcome |-> "genius_error" ]
            ELSE [ value |-> NULL, outcome |-> "ok" ]
       ELSE [ value |-> found, outcome |-> "ok" ]
  ELSE [ value |-> me._element, outcome |-> "ok" ]

\* the record of a call
Call(op, l, out, p, found, value) ==
  [ op |-> op, on |-> l, before |-> locators[l], outcome |-> out, p |-> p,
    found |-> found, value |-> value ]

After(out) == IF out \in Stops THEN "plt_stopped" ELSE "plt"

InitPLT ==
  /\ IdleMixA3
  /\ IdleIM
  /\ IdleMesh
  /\ pc = "plt"
  /\ locators = [l \in LocIds |-> NoLocator]
  /\ tree = [ state |-> "none", n_delete |-> 0, deleted_by |-> {} ]
  /\ plt_ret = [op |-> "none"]
  /\ NDEBUG \in BOOLEAN

notLocVars == << dampVars, bdfVars, solveVars, lteVars, asmVars, normVars,
    imVars,
    meshVars >>

\* PointLocatorTree(mesh, master) with master = NULL
ConstructMaster ==
  /\ pc = "plt"
  /\ locators["master"].state = "none"
  /\ \E s \in { PointLocatorTree_init(
                  [locators EXCEPT !["master"] = Constructed(NoMaster)],
                  tree, "master", NDEBUG) } :
       /\ locators' = s.locs
       /\ tree' = s.tree
       /\ plt_ret' = Call("construct", "master", s.outcome, 0, NULL, NULL)
       /\ pc' = After(s.outcome)
  /\ UNCHANGED << NDEBUG, notLocVars >>

\* PointLocatorTree(mesh, master) with the master locator as master
ConstructServant ==
  /\ pc = "plt"
  /\ locators["servant"].state = "none"
  /\ locators["master"].state = "alive"
  /\ \E s \in { PointLocatorTree_init(
                  [locators EXCEPT !["servant"] = Constructed("master")],
                  tree, "servant", NDEBUG) } :
       /\ locators' = s.locs
       /\ tree' = s.tree
       /\ plt_ret' = Call("construct", "servant", s.outcome, 0, NULL, NULL)
       /\ pc' = After(s.outcome)
  /\ UNCHANGED << NDEBUG, notLocVars >>

\* a call of init on a constructed locator
InitAgain ==
  /\ pc = "plt"
  /\ \E l \in LocIds :
       /\ locators[l].state = "alive"
       /\ \E s \in { PointLocatorTree_init(locators, tree, l, NDEBUG) } :
            /\ locators' = s.locs
            /\ tree' = s.tree
            /\ plt_ret' = Call("init", l, s.outcome, 0, NULL, NULL)
            /\ pc' = After(s.outcome)
  /\ UNCHANGED << NDEBUG, notLocVars >>

Clear ==
  /\ pc = "plt"
  /\ \E l \in LocIds :
       /\ locators[l].state = "alive"
       /\ \E s \in { PointLocatorTree_clear(locators, tree, l) } :
            /\ locators' = s.locs
            /\ tree' = s.tree
            /\ plt_ret' = Call("clear", l, s.outcome, 0, NULL, NULL)
            /\ pc' = After(s.outcome)
  /\ UNCHANGED << NDEBUG, notLocVars >>

\* ~PointLocatorTree: clear, then the object is gone
Destroy ==
  /\ pc = "plt"
  /\ \E l \in LocIds :
       /\ locators[l].state = "alive"
       /\ \E s \in { PointLocatorTree_clear(locators, tree, l) } :
            /\ locators' = [s.locs EXCEPT ![l].state = "destroyed"]
            /\ tree' = s.tree
            /\ plt_ret' = Call("destroy", l, s.outcome, 0, NULL, NULL)
            /\ pc' = After(s.outcome)
  /\ UNCHANGED << NDEBUG, notLocVars >>

\* operator()(p): a locator whose tree pointer is NULL or dangling has no
\* defined behaviour once it has to ask the tree
LocateCall ==
  /\ pc = "plt"
  /\ \E l \in LocIds, p \in Points :
       /\ locators[l].state = "alive"
       /\ LET me == locators[l]
              ask == me._element = NULL \/ ~ contains_point(me._element, p)
          IN IF ask /\ (me._tree = NULL \/ tree.state # "live")
             THEN /\ plt_ret' = Call("operator()", l, "undefined", p, NULL,
                                     NULL)
                  /\ pc' = "plt_stopped"
                  /\ UNCHANGED locators
             ELSE \E found \in (IF ask THEN find_element(p) ELSE { NULL }) :
                    \E s \in { Locate(me, p, found) } :
                      /\ plt_ret' = Call("operator()", l, s.outcome, p,
                                         found, s.value)
                      /\ pc' = After(s.outcome)
                      /\ locators' =
                           IF ask
                           THEN [locators EXCEPT ![l]._element = s.value]
                           ELSE locators
  /\ UNCHANGED << tree, NDEBUG, notLocVars >>

enable_out_of_mesh_mode ==
  /\ pc = "plt"
  /\ \E l \in LocIds :
       /\ locators[l].state = "alive"
       /\ locators' = [locators EXCEPT ![l]._out_of_mesh_mode = TRUE]
       /\ plt_ret' = Call("enable_out_of_mesh_mode", l, "ok", 0, NULL, NULL)
  /\ UNCHANGED << pc, tree, NDEBUG, notLocVars >>

disable_out_of_mesh_mode ==
  /\ pc = "plt"
  /\ \E l \in LocIds :
       /\ locators[l].state = "alive"
       /\ locators' = [locators EXCEPT ![l]._out_of_mesh_mode = FALSE]
       /\ plt_ret' = Call("disable_out_of_mesh_mode", l, "ok", 0, NULL, NULL)
  /\ UNCHANGED << pc, tree, NDEBUG, notLocVars >>

NextPLT ==
  \/ ConstructMaster
  \/ ConstructServant
  \/ InitAgain
  \/ Clear
  \/ Destroy
  \/ LocateCall
  \/ enable_out_of_mesh_mode
  \/ disable_out_of_mesh_mode

SpecPLT == InitPLT /\ [][NextPLT]_vars

\* the last call was operator() on a locator with a live tree
Located == plt_ret.op = "operator()" /\ plt_ret.outcome # "undefined"

\* C26: operator()(p) returns NULL only when out-of-mesh mode is enabled
\* and the tree finds no element.  With the mode disabled it never returns
\* NULL: it returns the cached element if that contains p, else the element
\* of the tree, else the first active element that contains p, and raises
\* the fatal error when there is none.
C26_NullOnlyOutOfMesh ==
  Located =>
    LET b == plt_ret.before
        p == plt_ret.p
        cached == b._element # NULL /\ contains_point(b._element, p)
    IN /\ (plt_ret.outcome = "ok" /\ plt_ret.value = NULL) =>
            (b._out_of_mesh_mode /\ ~ cached /\ plt_ret.found = NULL)
       /\ ~ b._out_of_mesh_mode =>
            IF cached
            THEN plt_ret.outcome = "ok" /\ plt_ret.value = b._element
            ELSE IF plt_ret.found # NULL
            THEN plt_ret.outcome = "ok" /\ plt_ret.value = plt_ret.found
            ELSE IF \E e \in Elems : contains_point(e, p)
            THEN /\ plt_ret.outcome = "ok"
                 /\ plt_ret.value \in Elems
                 /\ contains_point(plt_ret.value, p)
                 /\ \A e \in Elems :
                      contains_point(e, p) => plt_ret.value <= e
            ELSE plt_ret.outcome = "genius_error"

\* the tree missed a point of the mesh and the linear search found it
C26_Witness ==
  /\ Located
  /\ ~ plt_ret.before._out_of_mesh_mode
  /\ plt_ret.before._element # NULL
  /\ ~ contains_point(plt_ret.before._element, plt_ret.p)
  /\ plt_ret.found = NULL
  /\ plt_ret.outcome = "ok"
  /\ plt_ret.value # NULL

\* C27 (as stated): init on an initialised locator is ignored: it does not
\* abort and leaves the tree pointer, the cached element and the
\* initialised flag as they were.
C27_InitIgnored ==
  (plt_ret.op = "init" /\ plt_ret.before._initialized) =>
    /\ plt_ret.outcome = "ignored"
    /\ locators[plt_ret.on] = plt_ret.before

\* C28 (as stated): whatever clear and destructor calls are made, the tree
\* is deleted by the master only and at most once, and a servant is
\* initialised only from an initialised master.
C28_DeletedOnceByMaster ==
  /\ tree.n_delete <= 1
  /\ tree.deleted_by \subseteq { "master" }
  /\ locators["servant"]._initialized => locators["master"]._initialized

----------------------------------------------------------------------------
(* FE<Dim,T>::inverse_map (fe/fe_map.cc): the Newton iteration that maps a  *)
(* physical point back to the reference element.  The step dp of an        *)
(* iteration is an input: its size, whether the Jacobian was singular (G   *)
(* or det equal to 0) and whether the size is a NaN.                        *)

\* the sizes of dp: 0 .. MaxStep - 1, and MaxStep for an infinite step
MaxStep == 5

Tolerances == { 0, 1 }

\* a division by a zero G or det yields an infinite step or a NaN
Steps ==
  { d \in [ singular : BOOLEAN, size : 0 .. MaxStep, nan : BOOLEAN ] :
      /\ d.singular => (d.nan \/ d.size = MaxStep)
      /\ d.nan => d.size = 0 }

\* one pass of the do-while loop with the cnt > 10 test at `limit'
Pass(s, d, ndebug, limit) ==
  IF s.secure /\ ~ ndebug /\ d.singular
  THEN [s EXCEPT !.outcome = "assert"]
  ELSE IF s.secure /\ ~ ndebug /\ ~ (~ d.nan /\ d.size < 4)
  THEN [s EXCEPT !.outcome = "assert"]
  ELSE LET t == [s EXCEPT !.inverse_map_error = d.size, !.nan = d.nan,
                          !.p = "iterate", !.cnt = s.cnt + 1]
       IN IF t.cnt > limit
          THEN IF t.secure
               THEN IF t.cnt > 20
                    THEN [t EXCEPT !.outcome = "genius_error"]
                    ELSE IF ~ t.nan /\ t.inverse_map_error > t.tolerance
                    THEN t
                    ELSE [t EXCEPT !.outcome = "converged"]
               ELSE [t EXCEPT !.p = "far_off", !.outcome = "far_off"]
          ELSE IF ~ t.nan /\ t.inverse_map_error > t.tolerance
          THEN t
          ELSE [t EXCEPT !.outcome = "converged"]

Mut_inverse_map_pass(s, d, ndebug) == Pass(s, d, ndebug, 11)

\* the body of the do-while loop, the divergence watch and the loop test
inverse_map_pass(s, d, ndebug) == Pass(s, d, ndebug, 10)

InitIM ==
  /\ IdleMixA3
  /\ pc = "im_start"
  /\ locators = << >> /\ tree = << >> /\ plt_ret = [op |-> "none"]
  /\ NDEBUG \in BOOLEAN
  /\ im = << >>
  /\ IdleMesh

notImVars == << dampVars, bdfVars, solveVars, lteVars, asmVars, normVars,
                locators, tree, plt_ret, NDEBUG,
    meshVars >>

\* the call: p is the zero point, cnt = 0
InverseMapEnter ==
  /\ pc = "im_start"
  /\ \E secure \in BOOLEAN, tolerance \in Tolerances :
       im' = [ secure |-> secure, tolerance |-> tolerance, cnt |-> 0,
               inverse_map_error |-> 0, nan |-> FALSE, p |-> "zero",
               outcome |-> "none" ]
  /\ pc' = "im_loop"
  /\ UNCHANGED notImVars

NewtonPass ==
  /\ pc = "im_loop"
  /\ \E d \in Steps :
       /\ im' = inverse_map_pass(im, d, NDEBUG)
       /\ pc' = IF im'.outcome = "none" THEN "im_loop" ELSE "im_done"
  /\ UNCHANGED notImVars

NextIM == InverseMapEnter \/ NewtonPass

SpecIM == InitIM /\ [][NextIM]_vars /\ WF_vars(NextIM)

\* C29 (as stated): with secure = false the call makes at most 11
\* iterations and returns the far-off point if it has not converged; with
\* secure = true it converges or raises the fatal error once the iteration
\* count exceeds 20, and never makes more than 21 iterations.
C29_Outcomes ==
  pc \in { "im_loop", "im_done" } =>
    /\ ~ im.secure =>
         /\ im.cnt <= 11
         /\ pc = "im_done" => im.outcome \in { "converged", "far_off" }
         /\ im.outcome = "far_off" => im.p = "far_off"
    /\ im.secure =>
         /\ im.cnt <= 21
         /\ pc = "im_done" => im.outcome \in { "converged", "genius_error" }
         /\ im.outcome = "genius_error" => im.cnt > 20

\* C29 (amended): every call of inverse_map terminates.  With secure =
\* false it makes at most 11 iterations and returns either the converged
\* point or the far-off point.  With secure = true it makes at most 21
\* iterations and converges, raises the fatal error once the iteration
\* count exceeds 20, or fails an assertion of the secure mode (singular
\* Jacobian, step of size 4 or more) in a build with assertions.
C29_Terminates ==
  /\ <>(pc = "im_done")
  /\ [](pc \in { "im_loop", "im_done" } =>
          /\ ~ im.secure =>
               /\ im.cnt <= 11
               /\ pc = "im_done" => im.outcome \in { "converged", "far_off" }
               /\ im.outcome = "far_off" => (im.p = "far_off" /\ im.cnt = 11)
          /\ im.secure =>
               /\ im.cnt <= 21
               /\ pc = "im_done" =>
                    im.outcome \in { "converged", "genius_error", "assert" }
               /\ im.outcome = "genius_error" => im.cnt = 21
               /\ im.outcome = "assert" => ~ NDEBUG)

\* a secure call that gave up after the 21st iteration
C29_Witness ==
  /\ pc = "im_done"
  /\ im.secure
  /\ im.cnt = 21
  /\ im.outcome = "genius_error"

----------------------------------------------------------------------------
(* MeshBase (mesh/mesh_base.cc): the cached point locator and the          *)
(* prepared flag.  A locator object is named by the number of locators     *)
(* built before it, plus one.                                              *)

\* the number of point locators the mesh may build
MaxBuild == 2

\* the dimensions an element of the mesh may have
ElemDims == 1 .. 3

Max(a, b) == IF a > b THEN a ELSE b

\* MeshBase::MeshBase(d)
MeshBase ==
  [ _n_sbd |-> 1, _n_parts |-> 1, _mesh_dim |-> 0, _is_prepared |-> FALSE,
    _point_locator |-> NULL, _surface_locator |-> NULL, n_built |-> 0 ]

\* _point_locator.reset(NULL)
clear_point_locator(m) == [m EXCEPT !._point_locator = NULL]

\* _surface_locator.reset(NULL)
clear_surface_locator(m) == [m EXCEPT !._surface_locator = NULL]

\* MeshBase::point_locator: the mesh after the call
point_locator(m) ==
  IF m._point_locator = NULL
  THEN [m EXCEPT !._point_locator = m.n_built + 1, !.n_built = m.n_built + 1]
  ELSE m

\* prepare_for_use that keeps the point locator
Mut_prepare_for_use(m, d, parts) ==
  [ clear_surface_locator([m EXCEPT !._mesh_dim = Max(m._mesh_dim, d),
                                    !._n_parts = parts])
    EXCEPT !._is_prepared = TRUE ]

\* MeshBase::prepare_for_use on a mesh whose elements have dimension d and
\* which the partitioner splits into `parts' parts
prepare_for_use(m, d, parts) ==
  [ clear_surface_locator(clear_point_locator(
      [m EXCEPT !._mesh_dim = Max(m._mesh_dim, d), !._n_parts = parts]))
    EXCEPT !._is_prepared = TRUE ]

\* MeshBase::clear
MeshBase_clear(m) ==
  clear_surface_locator(clear_point_locator(
    [m EXCEPT !._n_sbd = 1, !._n_parts = 1, !._mesh_dim = 0,
              !._is_prepared = FALSE]))

InitMesh ==
  /\ IdleMixA3
  /\ IdleIM
  /\ locators = << >> /\ tree = << >> /\ plt_ret = [op |-> "none"]
  /\ NDEBUG = FALSE
  /\ pc = "mesh"
  /\ mesh = MeshBase
  /\ mesh_ret = [ op |-> "MeshBase", value |-> NULL ]

notMeshVars == << dampVars, bdfVars, solveVars, lteVars, asmVars, normVars,
                  locVars, imVars, pc >>

PointLocator ==
  /\ pc = "mesh"
  /\ mesh._point_locator # NULL \/ mesh.n_built < MaxBuild
  /\ mesh' = point_locator(mesh)
  /\ mesh_ret' = [ op |-> "point_locator", value |-> mesh'._point_locator ]
  /\ UNCHANGED notMeshVars

\* MeshBase::surface_locator
SurfaceLocator ==
  /\ pc = "mesh"
  /\ mesh' = [mesh EXCEPT !._surface_locator = 1]
  /\ mesh_ret' = [ op |-> "surface_locator", value |-> 1 ]
  /\ UNCHANGED notMeshVars

ClearPointLocator ==
  /\ pc = "mesh"
  /\ mesh' = clear_point_locator(mesh)
  /\ mesh_ret' = [ op |-> "clear_point_locator", value |-> NULL ]
  /\ UNCHANGED notMeshVars

PrepareForUse ==
  /\ pc = "mesh"
  /\ \E d \in ElemDims, parts \in 1 .. n_processors :
       mesh' = prepare_for_use(mesh, d, parts)
  /\ mesh_ret' = [ op |-> "prepare_for_use", value |-> NULL ]
  /\ UNCHANGED notMeshVars

MeshClear ==
  /\ pc = "mesh"
  /\ mesh' = MeshBase_clear(mesh)
  /\ mesh_ret' = [ op |-> "clear", value |-> NULL ]
  /\ UNCHANGED notMeshVars

NextMesh ==
  \/ PointLocator
  \/ SurfaceLocator
  \/ ClearPointLocator
  \/ PrepareForUse
  \/ MeshClear

SpecMesh == InitMesh /\ [][NextMesh]_vars

\* C30: point_locator() builds the locator on the first call and returns
\* the same one until it is cleared; prepare_for_use() and clear() always
\* discard the cached locator; prepare_for_use() leaves the mesh marked as
\* prepared and clear() as not prepared.
C30_LazyLocator ==
  [][/\ mesh_ret'.op = "point_locator" =>
          /\ mesh_ret'.value # NULL
          /\ mesh'._point_locator = mesh_ret'.value
          /\ mesh._point_locator # NULL =>
               (mesh_ret'.value = mesh._point_locator
                  /\ mesh'.n_built = mesh.n_built)
          /\ mesh._point_locator = NULL =>
               (mesh_ret'.value > mesh.n_built
                  /\ mesh'.n_built = mesh.n_built + 1)
     /\ mesh_ret'.op = "prepare_for_use" =>
          (mesh'._point_locator = NULL /\ mesh'._is_prepared)
     /\ mesh_ret'.op = "clear" =>
          (mesh'._point_locator = NULL /\ ~ mesh'._is_prepared)
     /\ mesh_ret'.op \in { "surface_locator" } =>
          mesh'._point_locator = mesh._point_locator]_vars

\* a second locator, built after prepare_for_use discarded the first
C30_Witness ==
  /\ pc = "mesh"
  /\ mesh_ret.op = "point_locator"
  /\ mesh.n_built = 2
  /\ mesh._point_locator = 2
  /\ mesh._is_prepared

====
